---- MODULE Spec2Model ----
(***************************************************************************)
(* Restore subsystem of the backup dashboard (src/web/restore.py):         *)
(* the remote archive cache, the archive browser, and the restore          *)
(* executor with its background thread.                                    *)
(*                                                                         *)
(* Python strings are modelled as sequences of one-character strings, so   *)
(* that startswith, split, rstrip and slicing are computed character by    *)
(* character as the interpreter computes them.                             *)
(***************************************************************************)
EXTENDS Integers, Sequences, FiniteSets, TLC

(***************************************************************************)
(* String primitives (str.startswith, str.endswith, str.rstrip, str.split) *)
(***************************************************************************)
StartsWith(s, p) == Len(p) <= Len(s) /\ SubSeq(s, 1, Len(p)) = p

EndsWithSlash(s) == Len(s) > 0 /\ s[Len(s)] = "/"

RECURSIVE RStripSlash(_)
RStripSlash(s) ==
    IF EndsWithSlash(s) THEN RStripSlash(SubSeq(s, 1, Len(s) - 1)) ELSE s

\* s.split('/'): always at least one segment; segments may be empty
RECURSIVE SplitSlash(_)
SplitSlash(s) ==
    IF \A i \in 1..Len(s) : s[i] # "/"
    THEN << s >>
    ELSE LET k == CHOOSE i \in 1..Len(s) :
                      s[i] = "/" /\ \A j \in 1..(i - 1) : s[j] # "/"
         IN  << SubSeq(s, 1, k - 1) >> \o SplitSlash(SubSeq(s, k + 1, Len(s)))

\* '/'.join(segs)
RECURSIVE JoinSlash(_)
JoinSlash(segs) ==
    IF segs = << >> THEN << >>
    ELSE IF Len(segs) = 1 THEN segs[1]
    ELSE segs[1] \o << "/" >> \o JoinSlash(Tail(segs))

(***************************************************************************)
(* os.path.join(a, b) and os.path.realpath(p) on POSIX.  The modelled file *)
(* system holds no symbolic link, and every path handed to realpath is     *)
(* absolute (the configured roots are absolute and the request paths are   *)
(* joined to them or drawn absolute), so realpath is normpath.             *)
(***************************************************************************)
PathJoin(a, b) ==
    IF StartsWith(b, << "/" >>) THEN b
    ELSE IF a = << >> \/ EndsWithSlash(a) THEN a \o b
    ELSE a \o << "/" >> \o b

RECURSIVE NormComps(_, _)
NormComps(comps, acc) ==
    IF comps = << >> THEN acc
    ELSE LET c == Head(comps) IN
         IF c = << >> \/ c = << "." >>
         THEN NormComps(Tail(comps), acc)
         ELSE IF c = << ".", "." >>
         THEN NormComps(Tail(comps),
                        IF acc = << >> THEN acc ELSE SubSeq(acc, 1, Len(acc) - 1))
         ELSE NormComps(Tail(comps), Append(acc, c))

\* the canonical segments of an absolute path
Canon(p) == NormComps(SplitSlash(p), << >>)

Realpath(p) == << "/" >> \o JoinSlash(Canon(p))

\* path q is root r or a descendant of it, compared segment by segment
IsPrefixSeq(r, q) == Len(r) <= Len(q) /\ SubSeq(q, 1, Len(r)) = r
UnderRoot(q, r) == IsPrefixSeq(Canon(r), Canon(q))

\* the characters of the names below, in code point order; Python compares
\* strings code point by code point, a proper prefix being the smaller
Alphabet == << " ", ".", "0", "1", "2", "a", "b", "n", "r", "s", "t", "x", "z" >>
Ord(c) == CHOOSE k \in 1..Len(Alphabet) : Alphabet[k] = c

RECURSIVE StrLess(_, _)
StrLess(a, b) ==
    IF b = << >> THEN FALSE
    ELSE IF a = << >> THEN TRUE
    ELSE IF a[1] # b[1] THEN Ord(a[1]) < Ord(b[1])
    ELSE StrLess(Tail(a), Tail(b))

\* str.endswith
EndsWith(s, suffix) ==
    Len(suffix) <= Len(s) /\ SubSeq(s, Len(s) - Len(suffix) + 1, Len(s)) = suffix

\* a strip that leaves the string as it is
Strip_None(s) == s

\* str.strip: leading and trailing blanks removed
RECURSIVE Strip(_)
Strip(s) ==
    IF s = << >> THEN s
    ELSE IF s[1] = " " THEN Strip(Tail(s))
    ELSE IF s[Len(s)] = " " THEN Strip(SubSeq(s, 1, Len(s) - 1))
    ELSE s

\* a sort that leaves the list in the order it came in
SortDesc_Keep(seq) == seq

\* sorted(..., reverse=True), list.sort(reverse=True): the largest first,
\* equal elements in the order they came in
RECURSIVE InsertDesc(_, _)
InsertDesc(sorted, x) ==
    IF sorted = << >> THEN << x >>
    ELSE IF StrLess(Head(sorted), x) THEN << x >> \o sorted
    ELSE << Head(sorted) >> \o InsertDesc(Tail(sorted), x)
RECURSIVE SortDescFrom(_, _)
SortDescFrom(sorted, seq) ==
    IF seq = << >> THEN sorted
    ELSE SortDescFrom(InsertDesc(sorted, Head(seq)), Tail(seq))
SortDesc(seq) == SortDescFrom(<< >>, seq)

\* a slice that keeps the whole list
Take_All(seq, n) == seq

\* seq[:n]
Take(seq, n) == SubSeq(seq, 1, IF Len(seq) < n THEN Len(seq) ELSE n)

(***************************************************************************)
(* Literals of the program.                                                *)
(***************************************************************************)
EmptyStr == << >>
RCLONE_CACHE_DIR ==
    << "/", "t", "m", "p", "/", "r", "e", "s", "t", "o", "r", "e", "/",
       "_", "r", "c", "l", "o", "n", "e", "_", "c", "a", "c", "h", "e" >>

\* request ids: at most two requests are in flight at a time
Ids == {1, 2}

\* largest remote archive, in blocks; a file of 2 blocks can be half written
MaxSize == 2
\* downloads one request issues one after the other
MaxCalls == 2

VARIABLES
    live,      \* the ids that issue requests in this run
    cache,     \* files written by rclone: canonical local path -> blocks present
    rsize,     \* size of the remote archive "x" (its only archive), in blocks
    dpc,       \* per id: position inside _rclone_download_archive and its caller
    dfile,     \* per id: the filename argument of the current call
    drc,       \* per id: how the rclone copyto of the current call ended
    dpart,     \* per id: the rclone child of the current call wrote a partial file
    dlog,      \* per id: the calls that returned: [file, result, transfer]
    dread      \* per id: what the caller found when it opened the returned path

dlVars == << live, cache, rsize, dpc, dfile, drc, dpart, dlog, dread >>

VARIABLES
    rin,       \* per id: the request body received, NoInput before
    rresp,     \* per id: the synchronous response: "none", "started", "e400"..
    tpc,       \* per id: position of the background thread do_restore
    events,    \* per id: the restore_progress events emitted for the request
    made,      \* directories created by os.makedirs(target_path) (line 418)
    rwork      \* per id: what the branch of do_restore did

rsVars == << rin, rresp, tpc, events, made, rwork >>

VARIABLES
    bin,       \* per id: the browse request received, NoBrowse before
    bpc,       \* per id: "idle", "loop" (archive entries), "list" (mirror), "done"
    bresp,     \* per id: the response: "none", "ok", "e403", "e404", "e500"
    bprefix,   \* per id: path_param
    entries,   \* per id: the entries of the response, in order
    seen_dirs, \* per id: the directory names already emitted
    bopened,   \* per id: the canonical paths opened or enumerated
    bstream    \* per id: the members (or directory items) read so far

brVars == << bin, bpc, bresp, bprefix, entries, seen_dirs, bopened, bstream >>

VARIABLES
    cbranch,   \* the branch of api_restore_browse whose loop is counted
    cpc,       \* "idle", "loop", "done"
    ctotal,    \* members of the archive, or items of the listing
    cfetched,  \* members or items obtained from the archive or the backend
    cread,     \* members or items the loop has taken
    clen,      \* len(entries)
    ccount     \* the counter `count` of the local mirror loop (line 364)

cpVars == << cbranch, cpc, ctotal, cfetched, cread, clen, ccount >>

VARIABLES
    lpc,       \* api_restore_list: "idle", "jobs", "done"
    ljobs,     \* the rows get_all_job_configs returned, in order
    ljob,      \* index of the job the loop of line 99 is at
    lresult,   \* `result`: one job_info [job_name, backups, raw] per job listed
    lkinds,    \* how the backend of each job visited answered: [job, kind]
    lresp      \* "none", "ok", "e500"

lsVars == << lpc, ljobs, ljob, lresult, lkinds, lresp >>

VARIABLES
    sq,        \* api_restore_search: the parameter q as received
    spc,       \* "idle", "jobs", "scan" (archives), "mirror" (files), "done"
    sresp,     \* "none", "ok", "e400", "e500"
    sjobs,     \* the rows get_all_job_configs returned, in order
    sjob,      \* index of the job the loop of line 573 is at
    results,   \* `results`: [job_name, backup_file, k], k-th match of its source
    sarchs,    \* the archives of the current job still to be scanned
    sopen,     \* the first of sarchs is open and being read
    shits,     \* matching members (or files) not yet read from the source
    smiss,     \* other members (or files) not yet read from the source
    sk,        \* matches read from the source so far
    scount,    \* the counter `count` of a mirror job (lines 623, 690)
    svisited,  \* the jobs whose backend was consulted, in order
    sopened,   \* the archives opened: [job, archive], in order
    sdl,       \* the archive downloads issued: [job, archive], in order
    skinds     \* how the backend of each job visited answered: [job, kind,
               \* listing]

seVars == << sq, spc, sresp, sjobs, sjob, results, sarchs, sopen, shits, smiss,
             sk, scount, svisited, sopened, sdl, skinds >>

VARIABLES
    hpc,       \* per id: position in a `with open_tar_zst(path) as tf` scope
    hfh,       \* per id: the file handle fh: "none", "open", "closed"
    hreader,   \* per id: the decompressor stream reader
    htf,       \* per id: the TarFile tf
    hread,     \* per id: members read inside the scope
    hexit      \* per id: how the scope was left

hdVars == << hpc, hfh, hreader, htf, hread, hexit >>

VARIABLES
    running_processes, \* app.py line 47: the entry of the job, or NoEntry
    process,      \* per /run request: the child it started: "none", "alive", "exited"
    return_code,  \* per child: "none", then what process.wait() returns
    signalled,    \* per child: "none", "term" (terminate), "kill"
    backup_runs,  \* table backup_runs: the row each /run request inserted
    starts,       \* rows inserted so far (orders them by start_time)
    log_files,    \* the log files on disk, named after the child that writes them
    sql_limit,    \* the SQLite build accepts UPDATE ... ORDER BY ... LIMIT
    runpc,        \* per /run request: "idle", "spawn", "spawned", "logged", "done"
    runresp,      \* per /run request: "none", "started", "already_running", "e500"
    monpc,        \* per child: position of its monitor_backup_process thread
    monlog,       \* per monitor: log_file_path (line 119), 0 before
    monstatus,    \* per monitor: `status` (line 115)
    killpc,       \* the /kill request: "idle", "sleep", "end", "del", "done"
    killresp,     \* "none", "killed", "e404", "e500"
    killproc      \* the child the /kill request took from the entry, 0 before

bkVars == << running_processes, process, return_code, signalled, backup_runs, starts,
             log_files, sql_limit, runpc, runresp, monpc, monlog, monstatus,
             killpc, killresp, killproc >>

\* the state of the handlers other than download, restore and browse
extVars == << cpVars, lsVars, seVars, hdVars, bkVars >>

\* what the actions of one handler leave alone
outsideCap == << dlVars, rsVars, brVars, lsVars, seVars, hdVars, bkVars >>
outsideList == << dlVars, rsVars, brVars, cpVars, seVars, hdVars, bkVars >>
outsideSearch == << dlVars, rsVars, brVars, cpVars, lsVars, hdVars, bkVars >>
outsideScope == << dlVars, rsVars, brVars, cpVars, lsVars, seVars, bkVars >>
outsideBackup == << dlVars, rsVars, brVars, cpVars, lsVars, seVars, hdVars >>
vars == << dlVars, rsVars, brVars, extVars >>

(***************************************************************************)
(* The remote store of the rclone job holds one archive, named "x".        *)
(***************************************************************************)
ArchiveX == << "x" >>
RemoteHas(filename) == filename = ArchiveX
DlNames == { ArchiveX }

\* rclone copyto ends: exit 0 with the file written, exit 0 with no file,
\* non-zero exit, subprocess.TimeoutExpired, or another exception
RcloneOutcomes == { "ok", "nofile", "nonzero", "timeout", "exception" }

\* line 45
LocalPath(filename) == PathJoin(RCLONE_CACHE_DIR, filename)
CacheKey(filename) == Realpath(LocalPath(filename))

FileExists(c, key) == key \in DOMAIN c
\* a download that never looks at the cache
CacheHit_Never(c, key) == FALSE

\* line 48: os.path.exists(local_path) and os.path.getsize(local_path) > 0
CacheHit(c, key) == FileExists(c, key) /\ c[key] > 0

WriteFile(c, key, n) == [k \in DOMAIN c \cup {key} |-> IF k = key THEN n ELSE c[k]]
RemoveFile(c, key) == [k \in DOMAIN c \ {key} |-> c[k]]

\* a cleanup that leaves the partial file in place
CleanupPartial_Kept(c, key) == c

\* lines 62-65: if os.path.exists(local_path): os.remove(local_path)
CleanupPartial(c, key) == IF FileExists(c, key) THEN RemoveFile(c, key) ELSE c

\* line 54: result.returncode == 0 and os.path.exists(local_path)
CopySucceeded(c, key, outcome) ==
    outcome \in { "ok", "nofile" } /\ FileExists(c, key)

DlInit ==
    /\ cache = << >>
    /\ rsize \in 0..MaxSize
    /\ dpc = [i \in Ids |-> "idle"]
    /\ dfile = [i \in Ids |-> EmptyStr]
    /\ drc = [i \in Ids |-> "none"]
    /\ dpart = [i \in Ids |-> FALSE]
    /\ dlog = [i \in Ids |-> << >>]
    /\ dread = [i \in Ids |-> << >>]

\* a browse, restore or search request reaches _rclone_download_archive
\* (lines 223, 437, 592); lines 44-45
DlCall(i) ==
    /\ i \in live
    /\ dpc[i] = "idle"
    /\ Len(dlog[i]) < MaxCalls
    /\ \E f \in DlNames : dfile' = [dfile EXCEPT ![i] = f]
    /\ dpc' = [dpc EXCEPT ![i] = "check"]
    /\ drc' = [drc EXCEPT ![i] = "none"]
    /\ dpart' = [dpart EXCEPT ![i] = FALSE]
    /\ UNCHANGED << live, cache, rsize, dlog, dread >>
    /\ UNCHANGED << rsVars, brVars, extVars >>

\* lines 47-49: reuse the cached file; else line 53 starts rclone copyto
DlCheck(i) ==
    /\ dpc[i] = "check"
    /\ IF CacheHit(cache, CacheKey(dfile[i]))
       THEN /\ dpc' = [dpc EXCEPT ![i] = "got"]
            /\ dlog' = [dlog EXCEPT ![i] = Append(@,
                         [file |-> dfile[i], result |-> "path", transfer |-> FALSE])]
       ELSE /\ dpc' = [dpc EXCEPT ![i] = "copy"]
            /\ dlog' = dlog
    /\ UNCHANGED << live, cache, rsize, dfile, drc, dpart, dread >>
    /\ UNCHANGED << rsVars, brVars, extVars >>

\* the rclone child writes the destination file in place, block by block
RcloneWrite(i) ==
    /\ dpc[i] = "copy"
    /\ RemoteHas(dfile[i])
    /\ LET key == CacheKey(dfile[i])
           have == IF FileExists(cache, key) THEN cache[key] ELSE 0
       IN  \E n \in 0..(rsize - 1) :
              /\ ~FileExists(cache, key) \/ n # have
              /\ cache' = WriteFile(cache, key, n)
    /\ dpart' = [dpart EXCEPT ![i] = TRUE]
    /\ UNCHANGED << live, rsize, dpc, dfile, drc, dlog, dread >>
    /\ UNCHANGED << rsVars, brVars, extVars >>

\* the rclone child ends (line 53 returns or raises)
RcloneExit(i) ==
    /\ dpc[i] = "copy"
    /\ \E o \in RcloneOutcomes :
          /\ o = "ok" => RemoteHas(dfile[i])
          \* exit 0 without a file, or a failure to start rclone, wrote nothing
          /\ o \in { "nofile", "exception" } => ~dpart[i]
          /\ cache' = IF o = "ok"
                      THEN WriteFile(cache, CacheKey(dfile[i]), rsize)
                      ELSE cache
          /\ drc' = [drc EXCEPT ![i] = o]
    /\ dpc' = [dpc EXCEPT ![i] = "test"]
    /\ UNCHANGED << live, rsize, dfile, dpart, dlog, dread >>
    /\ UNCHANGED << rsVars, brVars, extVars >>

\* lines 54-60: return local_path, or fall through to the cleanup
DlTest(i) ==
    /\ dpc[i] = "test"
    /\ IF CopySucceeded(cache, CacheKey(dfile[i]), drc[i])
       THEN /\ dpc' = [dpc EXCEPT ![i] = "got"]
            /\ dlog' = [dlog EXCEPT ![i] = Append(@,
                         [file |-> dfile[i], result |-> "path", transfer |-> TRUE])]
       ELSE /\ dpc' = [dpc EXCEPT ![i] = "cleanup"]
            /\ dlog' = dlog
    /\ UNCHANGED << live, cache, rsize, dfile, drc, dpart, dread >>
    /\ UNCHANGED << rsVars, brVars, extVars >>

\* lines 62-65: delete the partial file, return None
DlCleanup(i) ==
    /\ dpc[i] = "cleanup"
    /\ cache' = CleanupPartial(cache, CacheKey(dfile[i]))
    /\ dpc' = [dpc EXCEPT ![i] = "failed"]
    /\ dlog' = [dlog EXCEPT ![i] = Append(@,
                 [file |-> dfile[i], result |-> "none", transfer |-> TRUE])]
    /\ UNCHANGED << live, rsize, dfile, drc, dpart, dread >>
    /\ UNCHANGED << rsVars, brVars, extVars >>

\* what open_tar_zst(local_archive) finds at the path it was handed
FileState(c, key) ==
    IF ~FileExists(c, key) THEN "missing"
    ELSE IF c[key] = rsize THEN "complete"
    ELSE "partial"

\* the caller opens the returned path as an archive (lines 227, 446, 596)
DlRead(i) ==
    /\ dpc[i] = "got"
    /\ dread' = [dread EXCEPT ![i] = Append(@, FileState(cache, CacheKey(dfile[i])))]
    /\ dpc' = [dpc EXCEPT ![i] = "idle"]
    /\ UNCHANGED << live, cache, rsize, dfile, drc, dpart, dlog >>
    /\ UNCHANGED << rsVars, brVars, extVars >>

\* the caller handles the None result (lines 224-225, 438-439, 593-594)
DlGiveUp(i) ==
    /\ dpc[i] = "failed"
    /\ dpc' = [dpc EXCEPT ![i] = "idle"]
    /\ UNCHANGED << live, cache, rsize, dfile, drc, dpart, dlog, dread >>
    /\ UNCHANGED << rsVars, brVars, extVars >>

DlStep(i) ==
    \/ DlCall(i)
    \/ DlCheck(i)
    \/ RcloneWrite(i)
    \/ RcloneExit(i)
    \/ DlTest(i)
    \/ DlCleanup(i)
    \/ DlRead(i)
    \/ DlGiveUp(i)

DlNext == \E i \in Ids : DlStep(i)

(***************************************************************************)
(* Job configuration (db.get_job_config) and the local disk.               *)
(* Four enabled jobs, one per backend and mode, and a disabled one; any    *)
(* other name is not configured.  The local jobs keep their backups under DestRoot; the      *)
(* directory next to it, whose name begins with the root's name, and /etc  *)
(* hold files too.                                                         *)
(***************************************************************************)
DestRoot == << "/", "b", "/", "a", "p", "p" >>
SourcePath == << "/", "s", "r", "c" >>
InRoot(name) == DestRoot \o << "/" >> \o name
SiblingFile == << "/", "b", "/", "a", "p", "p", "2", "/", "x" >>
EtcFile == << "/", "e", "t", "c", "/", "x" >>
FileA == << "a" >>
FileB == << "b" >>
FileC == << "c" >>
\* the files on the local disk, by canonical path
DiskFiles == { InRoot(ArchiveX), InRoot(FileA), SiblingFile, EtcFile }

\* the rows of job_configs; "off_arc" is a row with enabled = 0
Jobs == { "loc_arc", "loc_dir", "rem_arc", "rem_dir", "off_arc" }
JobNames == Jobs \cup { "nojob" }

Config(job) ==
    [ mode |-> IF job \in { "loc_arc", "rem_arc", "off_arc" }
               THEN "compression" ELSE "direct",
      backend_type |-> IF job \in { "rem_arc", "rem_dir" } THEN "rclone" ELSE "rsync",
      dest_path |-> DestRoot,
      source_path |-> SourcePath,
      enabled |-> job # "off_arc" ]

\* get_job_config: the row, or None
HasConfig(job) == job \in Jobs

\* _get_rclone_dest: "remote:path" for an rclone job, else None
IsRemote(job) == Config(job).backend_type = "rclone"

(***************************************************************************)
(* Restore requests (api_restore_run) and their inputs.                    *)
(***************************************************************************)
\* longest explicit file list of a request
MaxFiles == 2
\* longest archive entry stream
MaxEntries == 3

UpSibling == << ".", ".", "/", "a", "p", "p", "2", "/", "x" >>
UpOther == << ".", ".", "/", "x" >>
MissingArchive == << "y" >>

BackupFiles == { EmptyStr, ArchiveX, MissingArchive, UpSibling, EtcFile }
RestoreNames == { FileA, FileB, UpSibling, UpOther }
FileLists == UNION { [1..n -> RestoreNames] : n \in 0..MaxFiles }

T_etc == << "/", "e", "t", "c" >>
T_data == << "/", "d", "a", "t", "a" >>
T_data_o == << "/", "d", "a", "t", "a", "/", "o" >>
T_datax == << "/", "d", "a", "t", "a", "x" >>
T_data_up == << "/", "d", "a", "t", "a", "/", ".", ".", "/", "e", "t", "c" >>
T_restore_o == << "/", "t", "m", "p", "/", "r", "e", "s", "t", "o", "r", "e", "/", "o" >>
TargetPaths == { EmptyStr, T_etc, T_data, T_data_o, T_datax, T_data_up, T_restore_o }

\* line 412
AllowedPrefixes == { << "/", "d", "a", "t", "a", "/" >>,
                     << "/", "t", "m", "p", "/", "r", "e", "s", "t", "o", "r", "e", "/" >> }

\* a check that accepts every destination
TargetAllowed_Any(target_path) == TRUE

\* lines 411-413: any(real_target.startswith(prefix) for prefix in allowed)
TargetAllowed(target_path) ==
    \E prefix \in AllowedPrefixes : StartsWith(Realpath(target_path), prefix)

\* a request body: json is FALSE for an empty body (line 396)
RestoreInputs ==
    [ json : BOOLEAN, job_name : JobNames, backup_file : BackupFiles,
      files : FileLists, target_path : TargetPaths ]

NoInput == [ json |-> FALSE, job_name |-> "", backup_file |-> EmptyStr,
             files |-> << >>, target_path |-> EmptyStr ]
NoWork == [ branch |-> "none", stream |-> << >>, read |-> 0, ext |-> << >>,
            n |-> 0, raised |-> FALSE, failed |-> FALSE, opened |-> {} ]

\* lines 410-416: the destination of the request
TargetOf(inp) ==
    IF inp.target_path # EmptyStr THEN inp.target_path
    ELSE Config(inp.job_name).source_path

\* os.path.realpath(p).startswith(os.path.realpath(root)): lines 311, 358, 492, 516
StartsWithRoot(p, root) == StartsWith(Realpath(p), Realpath(root))

RsInit ==
    /\ rin = [i \in Ids |-> NoInput]
    /\ rresp = [i \in Ids |-> "none"]
    /\ tpc = [i \in Ids |-> "none"]
    /\ events = [i \in Ids |-> << >>]
    /\ made = {}
    /\ rwork = [i \in Ids |-> NoWork]

Event(status, text, n) == [ status |-> status, text |-> text, n |-> n ]
Emit(i, ev) == events' = [events EXCEPT ![i] = Append(@, ev)]

\* the response of api_restore_run to a body (lines 394-418, 548-558);
\* mkdir is how os.makedirs(target_path) ends
RunResponse(inp, mkdir) ==
    IF ~inp.json THEN "e400"
    ELSE IF ~HasConfig(inp.job_name) THEN "e404"
    ELSE IF inp.target_path # EmptyStr /\ ~TargetAllowed(inp.target_path) THEN "e403"
    ELSE IF mkdir # "ok" THEN "e500"
    ELSE "started"

\* a handler with a single-flight guard: a request for a job whose restore
\* is still running is turned away
RestoreRunFrom_SingleFlight(i, inputs) ==
    /\ i \in live
    /\ rresp[i] = "none"
    /\ \E inp \in inputs, mkdir \in { "ok", "oserror" } :
          LET busy == \E j \in Ids \ { i } :
                          /\ tpc[j] \notin { "none", "t_end" }
                          /\ rin[j].job_name = inp.job_name
              r == IF busy THEN "e409" ELSE RunResponse(inp, mkdir)
          IN
          /\ rin' = [rin EXCEPT ![i] = inp]
          /\ rresp' = [rresp EXCEPT ![i] = r]
          /\ made' = IF r = "started" THEN made \cup { TargetOf(inp) } ELSE made
          /\ tpc' = [tpc EXCEPT ![i] = IF r = "started" THEN "t0" ELSE "none"]
    /\ UNCHANGED << dlVars, events, rwork >>
    /\ UNCHANGED << brVars, extVars >>

\* api_restore_run, lines 392-558, for a body drawn from `inputs`
RestoreRunFrom(i, inputs) ==
    /\ i \in live
    /\ rresp[i] = "none"
    /\ \E inp \in inputs, mkdir \in { "ok", "oserror" } :
          LET r == RunResponse(inp, mkdir) IN
          /\ rin' = [rin EXCEPT ![i] = inp]
          /\ rresp' = [rresp EXCEPT ![i] = r]
          /\ made' = IF r = "started" THEN made \cup { TargetOf(inp) } ELSE made
          /\ tpc' = [tpc EXCEPT ![i] = IF r = "started" THEN "t0" ELSE "none"]
    /\ UNCHANGED << dlVars, events, rwork >>
    /\ UNCHANGED << brVars, extVars >>

RestoreRun(i) == RestoreRunFrom(i, RestoreInputs)

\* lines 421-426
ThreadBegin(i) ==
    /\ tpc[i] = "t0"
    /\ Emit(i, Event("running", "Restoring", 0))
    /\ tpc' = [tpc EXCEPT ![i] = "t1"]
    /\ UNCHANGED << dlVars, rin, rresp, made, rwork >>
    /\ UNCHANGED << brVars, extVars >>

(***************************************************************************)
(* The background thread do_restore (lines 420-546).                       *)
(***************************************************************************)
Range(f) == { f[k] : k \in DOMAIN f }

\* archive entry names of the restore streams
EntryNames == { FileA, FileB, FileC }
Streams == UNION { [1..n -> EntryNames] : n \in 0..MaxEntries }

\* lines 429-531: the branch do_restore takes
Branch(inp) ==
    LET cfg == Config(inp.job_name) IN
    IF IsRemote(inp.job_name)
    THEN IF cfg.mode = "compression" /\ inp.backup_file # EmptyStr THEN "rem_arc"
         ELSE IF cfg.mode = "direct"
              THEN IF inp.files # << >> THEN "rem_dir_files" ELSE "rem_dir_full"
         ELSE "unsupported"
    ELSE IF cfg.mode = "compression" /\ inp.backup_file # EmptyStr THEN "loc_arc"
         ELSE IF cfg.mode = "direct"
              THEN IF inp.files # << >> THEN "loc_dir_files" ELSE "loc_dir_full"
         ELSE "unsupported"

\* lines 454, 503: if restored >= len(files_set): break
StopScan(restored, files_set) == restored >= Cardinality(files_set)

\* lines 447-456, 496-505: extract the entries whose name is requested.
\* Entry failAt, if any, cannot be read (tarfile or zstandard raises).
RECURSIVE ScanSelected(_, _, _, _, _)
ScanSelected(stream, files_set, failAt, k, acc) ==
    IF k > Len(stream)
    THEN [ read |-> Len(stream), ext |-> acc, raised |-> FALSE ]
    ELSE IF k = failAt
    THEN [ read |-> k, ext |-> acc, raised |-> TRUE ]
    ELSE IF stream[k] \in files_set
    THEN IF StopScan(Len(acc) + 1, files_set)
         THEN [ read |-> k, ext |-> Append(acc, stream[k]), raised |-> FALSE ]
         ELSE ScanSelected(stream, files_set, failAt, k + 1, Append(acc, stream[k]))
    ELSE ScanSelected(stream, files_set, failAt, k + 1, acc)

\* lines 458, 507: tf.extractall(target_path)
ExtractAll(stream, failAt) ==
    IF failAt \in 1..Len(stream)
    THEN [ read |-> failAt, ext |-> SubSeq(stream, 1, failAt - 1), raised |-> TRUE ]
    ELSE [ read |-> Len(stream), ext |-> stream, raised |-> FALSE ]

\* lines 446-459, 495-508: the archive at path `opened` holds `stream`
ArchiveWork(branch, inp, opened, stream, failAt) ==
    LET r == IF inp.files # << >>
             THEN ScanSelected(stream, Range(inp.files), failAt, 1, << >>)
             ELSE ExtractAll(stream, failAt)
    IN  [ branch |-> branch, stream |-> stream, read |-> r.read, ext |-> r.ext,
          n |-> IF inp.files # << >> THEN Len(r.ext) ELSE 0,
          raised |-> r.raised, failed |-> r.raised, opened |-> { opened } ]

\* a step of the branch raised before it opened or copied anything
Raised(branch) ==
    [ branch |-> branch, stream |-> << >>, read |-> 0, ext |-> << >>, n |-> 0,
      raised |-> TRUE, failed |-> TRUE, opened |-> {} ]

\* lines 513-523: copy the requested files of a local mirror; the copy of a
\* file that is not on the disk raises
RECURSIVE CopySelected(_, _, _, _)
CopySelected(src, files, k, acc) ==
    IF k > Len(files)
    THEN [ ext |-> acc, raised |-> FALSE ]
    ELSE LET src_file == PathJoin(src, files[k]) IN
         IF ~StartsWithRoot(src_file, src)
         THEN CopySelected(src, files, k + 1, acc)
         ELSE IF Realpath(src_file) \notin DiskFiles
         THEN [ ext |-> acc, raised |-> TRUE ]
         ELSE CopySelected(src, files, k + 1, Append(acc, files[k]))

LocalMirrorWork(inp) ==
    LET src == Config(inp.job_name).dest_path
        r == CopySelected(src, inp.files, 1, << >>)
    IN  [ branch |-> "loc_dir_files", stream |-> << >>, read |-> 0, ext |-> r.ext,
          n |-> Len(inp.files), raised |-> r.raised, failed |-> r.raised,
          opened |-> { Realpath(PathJoin(src, r.ext[k])) : k \in 1..Len(r.ext) } ]

\* lines 465-480: per requested file rclone copyto, then rclone copy; a
\* failure of both, or an exception, is printed and the loop goes on
RemoteFileOutcomes == { "copyto_ok", "copy_ok", "both_nonzero", "exception" }
Copied(o) == o \in { "copyto_ok", "copy_ok" }

RemoteMirrorWork(inp, outs) ==
    LET done == { k \in 1..Len(inp.files) : Copied(outs[k]) } IN
    [ branch |-> "rem_dir_files", stream |-> << >>, read |-> 0,
      ext |-> << >>, n |-> Cardinality(done), raised |-> FALSE,
      failed |-> done # 1..Len(inp.files), opened |-> {} ]

\* lines 482-485 (rclone copy) and 525-529 (rsync, check=True)
FullCopyWork(branch, outcome) ==
    [ branch |-> branch, stream |-> << >>, read |-> 0, ext |-> << >>, n |-> 0,
      raised |-> outcome # "ok", failed |-> outcome # "ok", opened |-> {} ]

\* lines 486-487, 530-531
UnsupportedWork ==
    [ branch |-> "unsupported", stream |-> << >>, read |-> 0, ext |-> << >>,
      n |-> 0, raised |-> FALSE, failed |-> FALSE, opened |-> {} ]

\* _rclone_download_archive from start to return, with no other caller
DownloadAlone(c, filename, outcome, part) ==
    LET key == CacheKey(filename) IN
    IF CacheHit(c, key) THEN [ cache |-> c, result |-> "path" ]
    ELSE LET c1 == IF outcome = "ok" THEN WriteFile(c, key, rsize)
                   ELSE IF part >= 0 THEN WriteFile(c, key, part)
                   ELSE c
         IN  IF CopySucceeded(c1, key, outcome)
             THEN [ cache |-> c1, result |-> "path" ]
             ELSE [ cache |-> CleanupPartial(c1, key), result |-> "none" ]

\* the partial files a failing rclone copyto can leave: none (-1) or some blocks
PartialWrites(outcome) ==
    IF outcome \in { "nonzero", "timeout" } THEN (-1)..(rsize - 1) ELSE { -1 }

\* lines 430-445: the download step of a remote archive restore
ThreadDownload(i) ==
    /\ tpc[i] = "t1"
    /\ Branch(rin[i]) = "rem_arc"
    /\ \E o \in RcloneOutcomes :
          /\ o = "ok" => RemoteHas(rin[i].backup_file)
          /\ \E part \in PartialWrites(o) :
                LET d == DownloadAlone(cache, rin[i].backup_file, o, part) IN
                /\ cache' = d.cache
                /\ IF d.result = "path"
                   THEN /\ events' = [events EXCEPT ![i] =
                               @ \o << Event("running", "Downloading", 0),
                                       Event("running", "Extracting", 0) >>]
                        /\ tpc' = [tpc EXCEPT ![i] = "t_ext"]
                        /\ rwork' = rwork
                   ELSE /\ Emit(i, Event("running", "Downloading", 0))
                        /\ tpc' = [tpc EXCEPT ![i] = "t_exc"]
                        /\ rwork' = [rwork EXCEPT ![i] = Raised("rem_arc")]
    /\ UNCHANGED << live, rsize, dpc, dfile, drc, dpart, dlog, dread,
                    rin, rresp, made >>
    /\ UNCHANGED << brVars, extVars >>

Finish(i, w) ==
    /\ rwork' = [rwork EXCEPT ![i] = w]
    /\ tpc' = [tpc EXCEPT ![i] = IF w.raised THEN "t_exc" ELSE "t_ok"]

\* lines 446-459: extract from the downloaded archive
ThreadExtractRemote(i) ==
    /\ tpc[i] = "t_ext"
    /\ LET key == CacheKey(rin[i].backup_file) IN
       IF FileState(cache, key) # "complete" \/ cache[key] = 0
       THEN Finish(i, Raised("rem_arc"))
       ELSE \E stream \in Streams, failAt \in 0..MaxEntries :
               Finish(i, ArchiveWork("rem_arc", rin[i], key, stream, failAt))
    /\ UNCHANGED << dlVars, rin, rresp, events, made >>
    /\ UNCHANGED << brVars, extVars >>

\* lines 490-508: extract from a local archive
ThreadExtractLocal(i) ==
    /\ tpc[i] = "t1"
    /\ Branch(rin[i]) = "loc_arc"
    /\ LET root == Config(rin[i].job_name).dest_path
           archive_path == PathJoin(root, rin[i].backup_file)
       IN  IF ~StartsWithRoot(archive_path, root)
           THEN Finish(i, Raised("loc_arc"))
           ELSE IF Realpath(archive_path) \notin DiskFiles
           THEN Finish(i, Raised("loc_arc"))
           ELSE \E stream \in Streams, failAt \in 0..MaxEntries :
                   Finish(i, ArchiveWork("loc_arc", rin[i], Realpath(archive_path),
                                         stream, failAt))
    /\ UNCHANGED << dlVars, rin, rresp, events, made >>
    /\ UNCHANGED << brVars, extVars >>

\* lines 461-485, 510-531: the mirror branches and the unsupported mode
ThreadCopy(i) ==
    /\ tpc[i] = "t1"
    /\ \/ /\ Branch(rin[i]) = "loc_dir_files"
          /\ Finish(i, LocalMirrorWork(rin[i]))
       \/ /\ Branch(rin[i]) = "loc_dir_full"
          /\ \E o \in { "ok", "nonzero" } : Finish(i, FullCopyWork("loc_dir_full", o))
       \/ /\ Branch(rin[i]) = "rem_dir_files"
          /\ \E outs \in [1..Len(rin[i].files) -> RemoteFileOutcomes] :
                Finish(i, RemoteMirrorWork(rin[i], outs))
       \/ /\ Branch(rin[i]) = "rem_dir_full"
          /\ \E o \in { "ok", "nonzero", "timeout" } :
                Finish(i, FullCopyWork("rem_dir_full", o))
       \/ /\ Branch(rin[i]) = "unsupported"
          /\ Finish(i, UnsupportedWork)
    /\ UNCHANGED << dlVars, rin, rresp, events, made >>
    /\ UNCHANGED << brVars, extVars >>

\* a success path whose last statement raises into the except clause
ThreadSuccess_ThenRaises(i) ==
    /\ tpc[i] = "t_ok"
    /\ Emit(i, Event("success", rwork[i].branch, rwork[i].n))
    /\ tpc' = [tpc EXCEPT ![i] = "t_exc"]
    /\ UNCHANGED << dlVars, rin, rresp, made, rwork >>
    /\ UNCHANGED << brVars, extVars >>

\* lines 533-538
ThreadSuccess(i) ==
    /\ tpc[i] = "t_ok"
    /\ Emit(i, Event("success", rwork[i].branch, rwork[i].n))
    /\ tpc' = [tpc EXCEPT ![i] = "t_end"]
    /\ UNCHANGED << dlVars, rin, rresp, made, rwork >>
    /\ UNCHANGED << brVars, extVars >>

\* an except clause that is entered again after the terminal event
ThreadError_Again(i) ==
    /\ tpc[i] \in { "t_exc", "t_end" }
    /\ Emit(i, Event("error", rwork[i].branch, 0))
    /\ tpc' = [tpc EXCEPT ![i] = "t_end"]
    /\ UNCHANGED << dlVars, rin, rresp, made, rwork >>
    /\ UNCHANGED << brVars, extVars >>

\* lines 540-546
ThreadError(i) ==
    /\ tpc[i] = "t_exc"
    /\ Emit(i, Event("error", rwork[i].branch, 0))
    /\ tpc' = [tpc EXCEPT ![i] = "t_end"]
    /\ UNCHANGED << dlVars, rin, rresp, made, rwork >>
    /\ UNCHANGED << brVars, extVars >>

RsStep(i) ==
    \/ RestoreRun(i)
    \/ ThreadBegin(i)
    \/ ThreadDownload(i)
    \/ ThreadExtractRemote(i)
    \/ ThreadExtractLocal(i)
    \/ ThreadCopy(i)
    \/ ThreadSuccess(i)
    \/ ThreadError(i)

RsNext == \E i \in Ids : RsStep(i)

\* two restore requests in flight.  The bodies are drawn from ConcInputs and
\* the archives hold at most MaxConcEntries entries.
MaxConcEntries == 1
ConcInputs ==
    [ json : { TRUE }, job_name : { "loc_arc", "loc_dir", "rem_arc", "nojob" },
      backup_file : { EmptyStr, ArchiveX }, files : { << >>, << FileA >> },
      target_path : { EmptyStr, T_data_o, T_etc } ]
ConcBound == \A i \in Ids : Len(rwork[i].stream) <= MaxConcEntries

RsConcStep(i) ==
    \/ RestoreRunFrom(i, ConcInputs)
    \/ ThreadBegin(i)
    \/ ThreadDownload(i)
    \/ ThreadExtractRemote(i) /\ ConcBound'
    \/ ThreadExtractLocal(i) /\ ConcBound'
    \/ ThreadCopy(i)
    \/ ThreadSuccess(i)
    \/ ThreadError(i)

RsConcNext == \E i \in Ids : RsConcStep(i)

\* the steps of the background thread (threading.Thread(target=do_restore),
\* lines 548-549): once started the thread is scheduled until it returns
ThreadStep(i) ==
    \/ ThreadBegin(i)
    \/ ThreadDownload(i)
    \/ ThreadExtractRemote(i)
    \/ ThreadExtractLocal(i)
    \/ ThreadCopy(i)
    \/ ThreadSuccess(i)
    \/ ThreadError(i)

\* the thread of some request moves on to another position.  Under RsNext
\* the steps that change the position of a started thread are the steps
\* ThreadStep, and at every position but t_end one of them is enabled: t0
\* ThreadBegin, t1 the action of Branch(rin[i]), t_ext ThreadExtractRemote,
\* t_ok ThreadSuccess, t_exc ThreadError.
ThreadPositions == { "t0", "t1", "t_ext", "t_ok", "t_exc", "t_end" }
ThreadAdvance ==
    \E i \in Ids, p \in ThreadPositions :
        /\ tpc[i] \notin { "none", "t_end" }
        /\ p # tpc[i]
        /\ tpc' = [tpc EXCEPT ![i] = p]

(***************************************************************************)
(* Browse requests (api_restore_browse, lines 205-388).                    *)
(***************************************************************************)
\* longest entry stream (or directory listing) a browse reads
MaxMembers == 3
\* line 263, 295, 353, 374: the cap on returned entries
BROWSE_CAP == 500

N_a == << "a" >>
N_b == << "b" >>
N_ab == << "a", "b" >>
N_a_b == << "a", "/", "b" >>
N_a_b_c == << "a", "/", "b", "/", "c" >>
N_ab_c == << "a", "b", "/", "c" >>
N_abs_a == << "/", "a" >>
N_dot_a == << ".", "/", "a" >>
N_a__b == << "a", "/", "/", "b" >>
N_root == << "/" >>

\* archive members as tarfile yields them (name, isdir): the name of a
\* directory member comes without its trailing slashes
Member(name, isdir) == [ name |-> name, isdir |-> isdir ]
BrowseMembers ==
    { Member(n, FALSE) : n \in { N_a, N_b, N_a_b, N_a_b_c, N_ab_c,
                                 N_abs_a, N_dot_a, N_a__b } }
    \cup { Member(n, TRUE) : n \in { N_a, N_ab, N_a_b, EmptyStr } }

BrowsePaths == { EmptyStr, N_a, << "a", "/" >>, N_a_b, N_root, UpOther }
BrowseFiles == { EmptyStr, ArchiveX, MissingArchive, UpSibling, EtcFile }
BrowseInputs == [ job_name : JobNames, file : BrowseFiles, path : BrowsePaths ]
NoBrowse == [ job_name |-> "", file |-> EmptyStr, path |-> EmptyStr ]

BrInit ==
    /\ bin = [i \in Ids |-> NoBrowse]
    /\ bpc = [i \in Ids |-> "idle"]
    /\ bresp = [i \in Ids |-> "none"]
    /\ bprefix = [i \in Ids |-> EmptyStr]
    /\ entries = [i \in Ids |-> << >>]
    /\ seen_dirs = [i \in Ids |-> {}]
    /\ bopened = [i \in Ids |-> {}]
    /\ bstream = [i \in Ids |-> << >>]

\* a prefix that is used as it was given
NormalizePrefix_None(path_param) == path_param

\* lines 228-229, 318-319
NormalizePrefix(path_param) ==
    IF path_param # EmptyStr /\ ~EndsWithSlash(path_param)
    THEN path_param \o << "/" >>
    ELSE path_param

Node(name, type, path) == [ name |-> name, type |-> type, path |-> path ]

\* lines 244, 334: rel.rstrip('/').split('/')
SplitRel(rel) == SplitSlash(RStripSlash(rel))

\* a loop that keeps no seen_dirs: every deeper entry gives a directory node
ProjectMember_NoSeen(path_param, st, member) ==
    LET name == IF member.isdir /\ ~EndsWithSlash(member.name)
                THEN member.name \o << "/" >>
                ELSE member.name
    IN
    IF path_param # EmptyStr /\ ~StartsWith(name, path_param) THEN st
    ELSE
    LET rel == IF path_param # EmptyStr
               THEN SubSeq(name, Len(path_param) + 1, Len(name))
               ELSE name
    IN
    IF rel = EmptyStr \/ rel = << "/" >> THEN st
    ELSE
    LET parts == SplitRel(rel) IN
    IF Len(parts) = 1 /\ ~member.isdir
    THEN [ entries |-> Append(st.entries, Node(parts[1], "file", name)),
           seen |-> st.seen ]
    ELSE IF Len(parts) >= 1 /\ (member.isdir \/ Len(parts) > 1)
    THEN IF TRUE
         THEN [ entries |-> Append(st.entries,
                               Node(parts[1], "directory",
                                    path_param \o parts[1] \o << "/" >>)),
                seen |-> st.seen \cup { parts[1] } ]
         ELSE st
    ELSE st

\* lines 233-261, 323-351: one turn of the loop over the archive members;
\* st is [entries, seen]
ProjectMember(path_param, st, member) ==
    LET name == IF member.isdir /\ ~EndsWithSlash(member.name)
                THEN member.name \o << "/" >>
                ELSE member.name
    IN
    IF path_param # EmptyStr /\ ~StartsWith(name, path_param) THEN st
    ELSE
    LET rel == IF path_param # EmptyStr
               THEN SubSeq(name, Len(path_param) + 1, Len(name))
               ELSE name
    IN
    IF rel = EmptyStr \/ rel = << "/" >> THEN st
    ELSE
    LET parts == SplitRel(rel) IN
    IF Len(parts) = 1 /\ ~member.isdir
    THEN [ entries |-> Append(st.entries, Node(parts[1], "file", name)),
           seen |-> st.seen ]
    ELSE IF Len(parts) >= 1 /\ (member.isdir \/ Len(parts) > 1)
    THEN IF parts[1] \notin st.seen
         THEN [ entries |-> Append(st.entries,
                               Node(parts[1], "directory",
                                    path_param \o parts[1] \o << "/" >>)),
                seen |-> st.seen \cup { parts[1] } ]
         ELSE st
    ELSE st

\* the directories of the local disk, and the items of one of them
RECURSIVE Ancestors(_)
Ancestors(segs) ==
    IF Len(segs) = 0 THEN { << >> }
    ELSE { segs } \cup Ancestors(SubSeq(segs, 1, Len(segs) - 1))
DiskDirs == UNION { Ancestors(SubSeq(Canon(f), 1, Len(Canon(f)) - 1)) : f \in DiskFiles }
DiskPaths == DiskDirs \cup { Canon(f) : f \in DiskFiles }
Children(dir) ==
    { q \in DiskPaths : Len(q) = Len(dir) + 1 /\ IsPrefixSeq(dir, q) }

\* how api_restore_browse answers before it reads any member or item:
\* the response, or "loop"/"list" with the path it opened.  dl is the
\* result of the download, ls how rclone lsf ended (remote jobs).
BrowseStart(inp, dl, ls) ==
    LET cfg == Config(inp.job_name) IN
    IF ~HasConfig(inp.job_name) THEN [ to |-> "e404", opened |-> {} ]
    ELSE IF IsRemote(inp.job_name)
    THEN IF cfg.mode = "compression" /\ inp.file # EmptyStr
         THEN IF dl = "none" THEN [ to |-> "e500", opened |-> {} ]
              ELSE [ to |-> "loop", opened |-> { CacheKey(inp.file) } ]
         ELSE IF cfg.mode = "direct"
         THEN IF ls = "nonzero" THEN [ to |-> "e404", opened |-> {} ]
              ELSE IF ls # "ok" THEN [ to |-> "e500", opened |-> {} ]
              ELSE [ to |-> "list", opened |-> {} ]
         ELSE [ to |-> "ok", opened |-> {} ]
    ELSE IF cfg.mode = "compression" /\ inp.file # EmptyStr
    THEN LET archive_path == PathJoin(cfg.dest_path, inp.file) IN
         IF ~StartsWithRoot(archive_path, cfg.dest_path)
         THEN [ to |-> "e403", opened |-> {} ]
         ELSE IF Realpath(archive_path) \notin DiskFiles
         THEN [ to |-> "e404", opened |-> {} ]
         ELSE [ to |-> "loop", opened |-> { Realpath(archive_path) } ]
    ELSE IF cfg.mode = "direct"
    THEN LET browse_path == PathJoin(cfg.dest_path, inp.path) IN
         IF ~StartsWithRoot(browse_path, cfg.dest_path)
         THEN [ to |-> "e403", opened |-> {} ]
         ELSE IF Canon(browse_path) \notin DiskPaths
         THEN [ to |-> "e404", opened |-> {} ]
         ELSE [ to |-> "list", opened |-> { Realpath(browse_path) } ]
    ELSE [ to |-> "ok", opened |-> {} ]

IsResponse(to) == to \in { "ok", "e403", "e404", "e500" }

\* lines 206-227, 266-275, 309-319, 356-362
BrowseRequest(i) ==
    /\ i \in live
    /\ bpc[i] = "idle"
    /\ \E inp \in BrowseInputs, o \in RcloneOutcomes, ls \in { "ok", "nonzero", "timeout" } :
          LET remote_archive == /\ HasConfig(inp.job_name)
                                /\ IsRemote(inp.job_name)
                                /\ Config(inp.job_name).mode = "compression"
                                /\ inp.file # EmptyStr
              d == IF remote_archive
                   THEN DownloadAlone(cache, inp.file, o, -1)
                   ELSE [ cache |-> cache, result |-> "unused" ]
              b == BrowseStart(inp, d.result, ls)
          IN  /\ o = "ok" => RemoteHas(inp.file)
              /\ cache' = d.cache
              /\ bin' = [bin EXCEPT ![i] = inp]
              /\ bopened' = [bopened EXCEPT ![i] = b.opened]
              /\ bpc' = [bpc EXCEPT ![i] = IF IsResponse(b.to) THEN "done" ELSE b.to]
              /\ bresp' = [bresp EXCEPT ![i] = IF IsResponse(b.to) THEN b.to ELSE "none"]
              /\ bprefix' = [bprefix EXCEPT ![i] =
                               IF b.to = "loop" THEN NormalizePrefix(inp.path)
                               ELSE inp.path]
    /\ UNCHANGED << live, rsize, dpc, dfile, drc, dpart, dlog, dread, rsVars, extVars,
                    entries, seen_dirs, bstream >>

\* lines 232-264, 322-354: the next member of the archive is read and
\* projected; the loop is left at the cap
BrowseMember(i) ==
    /\ bpc[i] = "loop"
    /\ Len(bstream[i]) < MaxMembers
    /\ \E m \in BrowseMembers :
          LET st == ProjectMember(bprefix[i],
                                  [ entries |-> entries[i], seen |-> seen_dirs[i] ], m)
          IN  /\ bstream' = [bstream EXCEPT ![i] = Append(@, m)]
              /\ entries' = [entries EXCEPT ![i] = st.entries]
              /\ seen_dirs' = [seen_dirs EXCEPT ![i] = st.seen]
              /\ IF Len(st.entries) >= BROWSE_CAP
                 THEN /\ bpc' = [bpc EXCEPT ![i] = "done"]
                      /\ bresp' = [bresp EXCEPT ![i] = "ok"]
                 ELSE UNCHANGED << bpc, bresp >>
    /\ UNCHANGED << dlVars, rsVars, extVars, bin, bprefix, bopened >>

\* an item of a listing becomes an entry (lines 286-294, 367-372)
ItemNode(path_param, m) ==
    Node(m.name, IF m.isdir THEN "directory" ELSE "file",
         PathJoin(path_param, m.name) \o (IF m.isdir THEN << "/" >> ELSE << >>))

\* the items a listing can yield next: a line of the rclone lsf output
\* (lines 276-288), or a child of the directory on the local disk (line
\* 365; the model yields the children in any order)
NextItems(inp, sofar) ==
    LET dir == Canon(PathJoin(Config(inp.job_name).dest_path, inp.path))
        all == IF IsRemote(inp.job_name)
               THEN { m \in BrowseMembers :
                        Len(SplitSlash(m.name)) = 1 /\ m.name # EmptyStr }
               ELSE { Member(q[Len(q)], q \in DiskDirs) : q \in Children(dir) }
    IN  { m \in all : \A k \in 1..Len(sofar) : sofar[k].name # m.name }

\* lines 276-296, 365-377: the next item is appended; the loop is left at
\* the cap
BrowseItem(i) ==
    /\ bpc[i] = "list"
    /\ Len(bstream[i]) < MaxMembers
    /\ \E m \in NextItems(bin[i], bstream[i]) :
          /\ bstream' = [bstream EXCEPT ![i] = Append(@, m)]
          /\ entries' = [entries EXCEPT ![i] = Append(@, ItemNode(bprefix[i], m))]
          /\ IF Len(entries[i]) + 1 >= BROWSE_CAP
             THEN /\ bpc' = [bpc EXCEPT ![i] = "done"]
                  /\ bresp' = [bresp EXCEPT ![i] = "ok"]
             ELSE UNCHANGED << bpc, bresp >>
    /\ UNCHANGED << dlVars, rsVars, extVars, bin, bprefix, seen_dirs, bopened >>

\* the stream or listing ends: lines 300-306, 379-385; or reading it
\* raises: lines 386-388
BrowseEnd(i) ==
    /\ bpc[i] \in { "loop", "list" }
    /\ \E r \in { "ok", "e500" } :
          /\ r = "e500" => bpc[i] = "loop"
          /\ bresp' = [bresp EXCEPT ![i] = r]
    /\ bpc' = [bpc EXCEPT ![i] = "done"]
    /\ UNCHANGED << dlVars, rsVars, extVars, bin, bprefix, entries, seen_dirs, bopened, bstream >>

BrStep(i) ==
    \/ BrowseRequest(i)
    \/ BrowseMember(i)
    \/ BrowseItem(i)
    \/ BrowseEnd(i)

BrNext == \E i \in Ids : BrStep(i)

(***************************************************************************)
(* Two browses of one archive, request 1 with a prefix that has no         *)
(* trailing '/' and request 2 with the same prefix followed by '/'.  The   *)
(* two handlers share no state but the download cache, which the first     *)
(* request fills before the second one looks at it; their loops read the   *)
(* same members and are followed side by side.                             *)
(***************************************************************************)
PairJobs == { "loc_arc", "rem_arc" }
PairPrefixes == { N_a, N_ab, N_a_b, N_abs_a, N_dot_a }

\* lines 206-231, 309-321 of both requests
PairRequest ==
    /\ live = Ids
    /\ \A i \in Ids : bpc[i] = "idle"
    /\ \E job \in PairJobs, prefix \in PairPrefixes, o1, o2 \in RcloneOutcomes :
          LET inp == << [ job_name |-> job, file |-> ArchiveX, path |-> prefix ],
                        [ job_name |-> job, file |-> ArchiveX,
                          path |-> prefix \o << "/" >> ] >>
              d1 == IF IsRemote(job) THEN DownloadAlone(cache, ArchiveX, o1, -1)
                    ELSE [ cache |-> cache, result |-> "unused" ]
              d2 == IF IsRemote(job) THEN DownloadAlone(d1.cache, ArchiveX, o2, -1)
                    ELSE [ cache |-> cache, result |-> "unused" ]
              b == << BrowseStart(inp[1], d1.result, "ok"),
                      BrowseStart(inp[2], d2.result, "ok") >>
          IN  /\ (IsRemote(job) /\ "ok" \in { o1, o2 }) => RemoteHas(ArchiveX)
              /\ ~IsRemote(job) => (o1 = "ok" /\ o2 = "ok")
              /\ cache' = d2.cache
              /\ bin' = [i \in Ids |-> inp[i]]
              /\ bopened' = [i \in Ids |-> b[i].opened]
              /\ bpc' = [i \in Ids |-> IF IsResponse(b[i].to) THEN "done" ELSE b[i].to]
              /\ bresp' = [i \in Ids |-> IF IsResponse(b[i].to) THEN b[i].to ELSE "none"]
              /\ bprefix' = [i \in Ids |-> IF b[i].to = "loop"
                                            THEN NormalizePrefix(inp[i].path)
                                            ELSE inp[i].path]
    /\ UNCHANGED << live, rsize, dpc, dfile, drc, dpart, dlog, dread, rsVars, extVars,
                    entries, seen_dirs, bstream >>

\* lines 232-264, 322-354 of both requests: the next member of the archive
PairMember ==
    /\ \A i \in Ids : bpc[i] = "loop" /\ Len(bstream[i]) < MaxMembers
    /\ \E m \in BrowseMembers :
          LET st == [i \in Ids |->
                       ProjectMember(bprefix[i],
                                     [ entries |-> entries[i], seen |-> seen_dirs[i] ], m)]
          IN  /\ bstream' = [i \in Ids |-> Append(bstream[i], m)]
              /\ entries' = [i \in Ids |-> st[i].entries]
              /\ seen_dirs' = [i \in Ids |-> st[i].seen]
              /\ bpc' = [i \in Ids |-> IF Len(st[i].entries) >= BROWSE_CAP
                                        THEN "done" ELSE bpc[i]]
              /\ bresp' = [i \in Ids |-> IF Len(st[i].entries) >= BROWSE_CAP
                                          THEN "ok" ELSE bresp[i]]
    /\ UNCHANGED << dlVars, rsVars, extVars, bin, bprefix, bopened >>

\* the archive ends (lines 379-385), or reading it raises (386-388)
PairEnd ==
    /\ \A i \in Ids : bpc[i] = "loop"
    /\ \E r \in { "ok", "e500" } : bresp' = [i \in Ids |-> r]
    /\ bpc' = [i \in Ids |-> "done"]
    /\ UNCHANGED << dlVars, rsVars, extVars, bin, bprefix, entries, seen_dirs,
                    bopened, bstream >>

PairNext == PairRequest \/ PairMember \/ PairEnd

(***************************************************************************)
(* The entry cap of api_restore_browse.  The loops of the four branches    *)
(* are followed for archives and listings longer than the cap; of each     *)
(* member or item only its effect on the number of entries is kept.        *)
(***************************************************************************)
\* members an archive or a listing holds beyond the cap
MaxOver == 2

CapBranches == { "loc_arc", "rem_arc", "loc_dir", "rem_dir" }
CapTotals == { MaxOver, BROWSE_CAP + MaxOver }

CpInit ==
    /\ cbranch = "none"
    /\ cpc = "idle"
    /\ ctotal = 0
    /\ cfetched = 0
    /\ cread = 0
    /\ clen = 0
    /\ ccount = 0

\* a loop that never stops at the cap
CapReached_Never(n) == FALSE

\* lines 263, 295, 353, 374
CapReached(n) == n >= BROWSE_CAP

\* the loop is entered: an archive is a stream read member by member
\* (lines 227-232, 317-322); a listing is obtained whole before its loop:
\* the output of rclone lsf (lines 272-276), sorted(os.scandir()) (line 365)
CapRequest ==
    /\ cpc = "idle"
    /\ \E b \in CapBranches, n \in CapTotals :
          /\ cbranch' = b
          /\ ctotal' = n
          /\ cfetched' = IF b \in { "loc_dir", "rem_dir" } THEN n ELSE 0
    /\ cpc' = "loop"
    /\ UNCHANGED << cread, clen, ccount, outsideCap >>

\* lines 232-264, 322-354: a member is read; it adds one entry, or none
\* (outside the prefix, the prefix itself, a directory already seen)
CapMember ==
    /\ cpc = "loop"
    /\ cbranch \in { "loc_arc", "rem_arc" }
    /\ cread < ctotal
    /\ \E add \in { 0, 1 } :
          /\ clen' = clen + add
          /\ cpc' = IF CapReached(clen + add) THEN "done" ELSE "loop"
    /\ cread' = cread + 1
    /\ cfetched' = cread + 1
    /\ UNCHANGED << cbranch, ctotal, ccount, outsideCap >>

\* lines 276-296: a line of the rclone lsf output; a blank line or one
\* without ';' adds nothing and leaves the cap unexamined
CapLine ==
    /\ cpc = "loop"
    /\ cbranch = "rem_dir"
    /\ cread < ctotal
    /\ \E kind \in { "blank", "malformed", "entry" } :
          IF kind = "entry"
          THEN /\ clen' = clen + 1
               /\ cpc' = IF CapReached(clen + 1) THEN "done" ELSE "loop"
          ELSE UNCHANGED << clen, cpc >>
    /\ cread' = cread + 1
    /\ UNCHANGED << cbranch, ctotal, cfetched, ccount, outsideCap >>

\* lines 365-377: an item of the sorted directory; item.stat() may raise,
\* and then neither the entry is appended nor count incremented
CapItem ==
    /\ cpc = "loop"
    /\ cbranch = "loc_dir"
    /\ cread < ctotal
    /\ \E raised \in BOOLEAN :
          IF raised
          THEN UNCHANGED << clen, ccount, cpc >>
          ELSE /\ clen' = clen + 1
               /\ ccount' = ccount + 1
               /\ cpc' = IF CapReached(ccount + 1) THEN "done" ELSE "loop"
    /\ cread' = cread + 1
    /\ UNCHANGED << cbranch, ctotal, cfetched, outsideCap >>

\* the stream or the listing is exhausted: lines 300-306, 379-385
CapEnd ==
    /\ cpc = "loop"
    /\ cread = ctotal
    /\ cpc' = "done"
    /\ UNCHANGED << cbranch, ctotal, cfetched, cread, clen, ccount,
                    outsideCap >>

CpNext == CapRequest \/ CapMember \/ CapLine \/ CapItem \/ CapEnd

(***************************************************************************)
(* List backups (api_restore_list, lines 92-202).                          *)
(***************************************************************************)
\* longest directory listing, or output of rclone lsf, in names
MaxListing == 3

ArchiveExt == << ".", "t", "a", "r", ".", "z", "s", "t" >>
A1 == << "a", "1" >> \o ArchiveExt
A2 == << "a", "2" >> \o ArchiveExt
A10 == << "a", "1", "0" >> \o ArchiveExt
B1 == << "b", "1" >> \o ArchiveExt
NoteTxt == << "n", ".", "t", "x", "t" >>
ArchiveNames == { A1, A2, A10, B1 }

\* get_all_job_configs: the rows ordered by run_group and run_order; the
\* empty list when the query fails (db.py lines 215-224)
AllJobs == << "rem_dir", "off_arc", "loc_arc", "loc_dir", "rem_arc" >>
JobLists == { AllJobs, << >> }
EnabledJobs(jobs) == SelectSeq(jobs, LAMBDA j : Config(j).enabled)

\* the listings: names in the order the directory scan or the remote
\* listing gives them, no name twice
ListingsOver(names) ==
    UNION { { q \in [1..n -> names] : \A j, k \in 1..n : j # k => q[j] # q[k] } :
            n \in 0..MaxListing }

\* how a backend can answer: rclone lsf (remote), os.path.exists and
\* os.listdir (local)
RemoteKinds == { "ok", "nonzero", "timeout", "exception" }
LocalKinds == { "ok", "missing", "unreadable" }

\* a handler in which every backend failure escapes
Propagates_All(kind) == kind # "ok"

\* the failures no except clause of the loop catches: os.listdir (lines
\* 175, 661) stands outside any try; they reach lines 200-202, 717-719
Propagates(kind) == kind = "unreadable"

JobInfo(job, backups, raw) == [ job_name |-> job, backups |-> backups, raw |-> raw ]
\* lines 159, 191: the one backup a mirror job is listed with
MirrorName(job) == IF IsRemote(job) THEN "(remote direct mirror)" ELSE "(direct mirror)"

LsInit ==
    /\ lpc = "idle"
    /\ ljobs = << >>
    /\ ljob = 0
    /\ lresult = << >>
    /\ lkinds = << >>
    /\ lresp = "none"

\* lines 95-97
ListRequest ==
    /\ lpc = "idle"
    /\ \E jobs \in JobLists : ljobs' = jobs
    /\ ljob' = 1
    /\ lpc' = "jobs"
    /\ UNCHANGED << lresult, lkinds, lresp, outsideList >>

\* lines 118-150 and 173-187: the backups of an archive job.  A blank line
\* of the remote listing is dropped (line 124); a local name that is no
\* archive (line 176) or whose os.stat fails (lines 185-186) is dropped
RemoteArchives(lines) == SortDesc(SelectSeq(lines, LAMBDA l : Strip(l) # EmptyStr))
LocalArchives(listing, nostat) ==
    SelectSeq(SortDesc(listing), LAMBDA f : EndsWith(f, ArchiveExt) /\ f \notin nostat)

\* one turn of the loop of line 99 for an enabled job: the job_info, or
\* the exception that leaves the loop
ListTurn(job, kind, listing, nostat) ==
    LET cfg == Config(job)
        backups ==
            IF kind # "ok" THEN << >>
            ELSE IF cfg.mode # "compression" THEN << MirrorName(job) >>
            ELSE IF IsRemote(job) THEN RemoteArchives(listing)
            ELSE LocalArchives(listing, nostat)
    IN  [ raised |-> Propagates(kind), info |-> JobInfo(job, backups, listing) ]

\* lines 99-197
ListJob ==
    /\ lpc = "jobs"
    /\ ljob <= Len(ljobs)
    /\ LET job == ljobs[ljob] IN
       IF ~Config(job).enabled
       THEN /\ ljob' = ljob + 1
            /\ UNCHANGED << lpc, lresult, lkinds, lresp >>
       ELSE \E kind \in (IF IsRemote(job) THEN RemoteKinds ELSE LocalKinds),
               listing \in ListingsOver(IF IsRemote(job)
                                        THEN ArchiveNames \cup { EmptyStr }
                                        ELSE ArchiveNames \cup { NoteTxt }),
               nostat \in { {}, { A1 } } :
               LET t == ListTurn(job, kind, listing, nostat) IN
               /\ (kind # "ok" \/ Config(job).mode # "compression")
                     => listing = << >>
               /\ (IsRemote(job) \/ kind # "ok") => nostat = {}
               /\ kind = "unreadable" => Config(job).mode = "compression"
               /\ lkinds' = Append(lkinds, [ job |-> job, kind |-> kind ])
               /\ IF t.raised
                  THEN /\ lresp' = "e500"
                       /\ lpc' = "done"
                       /\ UNCHANGED << ljob, lresult >>
                  ELSE /\ lresult' = Append(lresult, t.info)
                       /\ ljob' = ljob + 1
                       /\ UNCHANGED << lpc, lresp >>
    /\ UNCHANGED << ljobs, outsideList >>

\* line 199
ListEnd ==
    /\ lpc = "jobs"
    /\ ljob > Len(ljobs)
    /\ lresp' = "ok"
    /\ lpc' = "done"
    /\ UNCHANGED << ljobs, ljob, lresult, lkinds, outsideList >>

LsNext == ListRequest \/ ListJob \/ ListEnd

(***************************************************************************)
(* Search (api_restore_search, lines 561-719).  Of a member of an archive  *)
(* and of a file of a mirror the model keeps whether its name contains the *)
(* query (lines 600, 636, 672, 693) or not.                                *)
(***************************************************************************)
\* line 566
MIN_QUERY == 3
\* lines 609, 613, 646, 651, 681, 686, 708, 710, 713
SEARCH_CAP == 50
\* lines 646, 708, 710
MIRROR_CAP == 10
\* line 587: [:1], line 663: [:3]
REMOTE_ARCHIVES == 1
LOCAL_ARCHIVES == 3

\* members of a source that do not match: directories, other names
MaxMiss == 1
\* matches a failing source yields before reading it raises
MaxPartial == 1

Queries ==
    { EmptyStr, << "a", "b" >>, << " ", "a", "b", " " >>, << " ", " ", "a" >>,
      << "a", "b", "x" >>, << " ", "a", "b", "x", " " >>, << "a", " ", "b" >>,
      << "a", "b", "x", "z" >> }

\* matches an archive holds, and a mirror: none, one, more than the cap
ArchiveHits == { 0, 1, SEARCH_CAP + 1 }
MirrorHits == { 0, 1, MIRROR_CAP + 1 }

\* the archives of a job, as the directory scan or rclone lsf gives them
SearchListings ==
    { << >>, << A2 >>, << A10, NoteTxt, A2 >>, << A1, B1, A10, A2 >> }

Result(job, backup_file, k) == [ job_name |-> job, backup_file |-> backup_file, k |-> k ]

SeInit ==
    /\ sq = EmptyStr
    /\ spc = "idle"
    /\ sresp = "none"
    /\ sjobs = << >>
    /\ sjob = 0
    /\ results = << >>
    /\ sarchs = << >>
    /\ sopen = FALSE
    /\ shits = 0
    /\ smiss = 0
    /\ sk = 0
    /\ scount = 0
    /\ svisited = << >>
    /\ sopened = << >>
    /\ sdl = << >>
    /\ skinds = << >>

\* a search that never stops at the cap
SearchCapReached_Never(n) == FALSE

\* lines 609, 613, 651, 681, 686, 713: len(results) >= 50
SearchCapReached(n) == n >= SEARCH_CAP

\* a mirror job whose own counter is never looked at
MirrorCapReached_Never(count) == FALSE

\* lines 646, 708, 710: count >= 10
MirrorCapReached(count) == count >= MIRROR_CAP

\* lines 565-571
SearchRequest ==
    /\ spc = "idle"
    /\ \E q \in Queries, jobs \in JobLists :
          /\ sq' = q
          /\ IF Len(Strip(q)) < MIN_QUERY
             THEN /\ sresp' = "e400"
                  /\ spc' = "done"
                  /\ UNCHANGED << sjobs, sjob >>
             ELSE /\ sjobs' = jobs
                  /\ sjob' = 1
                  /\ spc' = "jobs"
                  /\ UNCHANGED sresp
    /\ UNCHANGED << results, sarchs, sopen, shits, smiss, sk, scount, svisited,
                    sopened, sdl, skinds, outsideSearch >>

\* the end of a turn of the loop of line 573 that reaches line 651 or 713:
\* the loop is left at the cap, or goes on with the next job
JobEnd(res) ==
    IF SearchCapReached(Len(res))
    THEN /\ spc' = "done"
         /\ sresp' = "ok"
         /\ UNCHANGED sjob
    ELSE /\ spc' = "jobs"
         /\ sjob' = sjob + 1
         /\ UNCHANGED sresp

\* `continue` (lines 575, 586, 657): the next job, the cap not examined
JobContinue ==
    /\ spc' = "jobs"
    /\ sjob' = sjob + 1
    /\ UNCHANGED sresp

\* line 584: rclone lsf --include '*.tar.zst'
RcloneInclude(listing) == SelectSeq(listing, LAMBDA f : EndsWith(f, ArchiveExt))

\* lines 587, 660-663: the archives a job is searched in
ArchivesToScan(job, listing) ==
    IF IsRemote(job)
    THEN Take(SortDesc(RcloneInclude(listing)), REMOTE_ARCHIVES)
    ELSE Take(SortDesc(SelectSeq(listing, LAMBDA f : EndsWith(f, ArchiveExt))),
              LOCAL_ARCHIVES)

\* lines 573-592, 618-623, 655-663, 689-691: a turn of the loop up to the
\* point where the archives or the files of the job are known
SearchJob ==
    /\ spc = "jobs"
    /\ sjob <= Len(sjobs)
    /\ LET job == sjobs[sjob]
           cfg == Config(job)
       IN
       IF ~cfg.enabled
       THEN /\ JobContinue
            /\ UNCHANGED << sarchs, sopen, shits, smiss, sk, scount, svisited, skinds >>
       ELSE
       \E kind \in (IF IsRemote(job) THEN RemoteKinds ELSE LocalKinds),
          listing \in SearchListings, hits \in MirrorHits :
          /\ (kind # "ok" \/ cfg.mode # "compression") => listing = << >>
          /\ (kind # "ok" \/ cfg.mode # "direct") => hits = 0
          /\ kind = "unreadable" => cfg.mode = "compression"
          /\ svisited' = Append(svisited, job)
          /\ skinds' = Append(skinds, [ job |-> job, kind |-> kind,
                                        listing |-> listing ])
          /\ IF Propagates(kind)
             THEN /\ sresp' = "e500"
                  /\ spc' = "done"
                  /\ UNCHANGED << sjob, sarchs, sopen, shits, smiss, sk, scount >>
             ELSE IF kind = "missing" \/ (kind = "nonzero" /\ cfg.mode = "compression")
             THEN /\ JobContinue
                  /\ UNCHANGED << sarchs, sopen, shits, smiss, sk, scount >>
             ELSE IF kind # "ok"
             THEN /\ JobEnd(results)
                  /\ UNCHANGED << sarchs, sopen, shits, smiss, sk, scount >>
             ELSE IF cfg.mode = "compression"
             THEN LET archs == ArchivesToScan(job, listing) IN
                  IF archs = << >>
                  THEN /\ JobEnd(results)
                       /\ UNCHANGED << sarchs, sopen, shits, smiss, sk, scount >>
                  ELSE /\ spc' = "scan"
                       /\ sarchs' = archs
                       /\ sopen' = FALSE
                       /\ UNCHANGED << sresp, sjob, shits, smiss, sk, scount >>
             ELSE /\ spc' = "mirror"
                  /\ shits' = hits
                  /\ smiss' = MaxMiss
                  /\ sk' = 0
                  /\ scount' = 0
                  /\ UNCHANGED << sresp, sjob, sarchs, sopen >>
    /\ UNCHANGED << sq, sjobs, results, sopened, sdl, outsideSearch >>

\* an archive is done with and the loop over the archives was not left:
\* lines 613-614, 686-687, then the next archive or the end of the turn
NextArchive(res) ==
    IF SearchCapReached(Len(res)) \/ Len(sarchs) = 1
    THEN /\ JobEnd(res)
         /\ sarchs' = << >>
    ELSE /\ sarchs' = Tail(sarchs)
         /\ UNCHANGED << spc, sresp, sjob >>

\* lines 588-596, 665-668: the next archive is downloaded (remote job) and
\* opened; a failed download skips it, a failed open is passed over
SearchOpen ==
    /\ spc = "scan"
    /\ ~sopen
    /\ LET job == sjobs[sjob]
           a == Head(sarchs)
       IN
       \E dl \in { "path", "none" }, op \in { "ok", "raise" }, hits \in ArchiveHits :
          /\ ~IsRemote(job) => dl = "path"
          /\ dl = "none" => op = "ok"
          /\ (dl = "none" \/ op = "raise") => hits = 0
          /\ sdl' = IF IsRemote(job)
                    THEN Append(sdl, [ job |-> job, archive |-> a ])
                    ELSE sdl
          /\ sopened' = IF dl = "path"
                        THEN Append(sopened, [ job |-> job, archive |-> a ])
                        ELSE sopened
          /\ IF dl = "path" /\ op = "ok"
             THEN /\ sopen' = TRUE
                  /\ shits' = hits
                  /\ smiss' = MaxMiss
                  /\ sk' = 0
                  /\ UNCHANGED << spc, sresp, sjob, sarchs >>
             ELSE /\ NextArchive(results)
                  /\ UNCHANGED << sopen, shits, smiss, sk >>
    /\ UNCHANGED << sq, sjobs, results, scount, svisited, skinds, outsideSearch >>

\* lines 597-610, 669-682: the next member of the open archive
SearchMember ==
    /\ spc = "scan"
    /\ sopen
    /\ \/ /\ shits > 0
          /\ LET res == Append(results,
                               Result(sjobs[sjob], Head(sarchs), sk + 1))
             IN  /\ results' = res
                 /\ shits' = shits - 1
                 /\ sk' = sk + 1
                 /\ IF SearchCapReached(Len(res))
                    THEN /\ sopen' = FALSE
                         /\ JobEnd(res)
                         /\ sarchs' = << >>
                    ELSE UNCHANGED << sopen, spc, sresp, sjob, sarchs >>
          /\ UNCHANGED smiss
       \/ /\ smiss > 0
          /\ smiss' = smiss - 1
          /\ UNCHANGED << results, shits, sk, sopen, spc, sresp, sjob, sarchs >>
    /\ UNCHANGED << sq, sjobs, scount, svisited, sopened, sdl, skinds, outsideSearch >>

\* the archive ends, or reading it raises (lines 611-612, 683-684)
SearchArchiveEnd ==
    /\ spc = "scan"
    /\ sopen
    /\ \E how \in { "eof", "raise" } :
          /\ how = "eof" => shits = 0
          /\ how = "raise" => (shits > 0 /\ sk <= MaxPartial)
    /\ sopen' = FALSE
    /\ NextArchive(results)
    /\ UNCHANGED << sq, sjobs, results, shits, smiss, sk, scount, svisited,
                    sopened, sdl, skinds, outsideSearch >>

\* lines 624-647, 691-711: the next line of rclone lsf, or file of os.walk
SearchFile ==
    /\ spc = "mirror"
    /\ \/ /\ shits > 0
          /\ LET res == Append(results, Result(sjobs[sjob], EmptyStr, sk + 1))
             IN  /\ results' = res
                 /\ shits' = shits - 1
                 /\ sk' = sk + 1
                 /\ scount' = scount + 1
                 /\ IF MirrorCapReached(scount + 1) \/ SearchCapReached(Len(res))
                    THEN JobEnd(res)
                    ELSE UNCHANGED << spc, sresp, sjob >>
          /\ UNCHANGED smiss
       \/ /\ smiss > 0
          /\ smiss' = smiss - 1
          /\ UNCHANGED << results, shits, sk, scount, spc, sresp, sjob >>
    /\ UNCHANGED << sq, sjobs, sarchs, sopen, svisited, sopened, sdl, skinds,
                    outsideSearch >>

\* the listing of the mirror is exhausted: line 651 or 713
SearchMirrorEnd ==
    /\ spc = "mirror"
    /\ shits = 0
    /\ JobEnd(results)
    /\ UNCHANGED << sq, sjobs, results, sarchs, sopen, shits, smiss, sk, scount,
                    svisited, sopened, sdl, skinds, outsideSearch >>

\* line 716
SearchEnd ==
    /\ spc = "jobs"
    /\ sjob > Len(sjobs)
    /\ sresp' = "ok"
    /\ spc' = "done"
    /\ UNCHANGED << sq, sjobs, sjob, results, sarchs, sopen, shits, smiss, sk,
                    scount, svisited, sopened, sdl, skinds, outsideSearch >>

SeNext ==
    \/ SearchRequest
    \/ SearchJob
    \/ SearchOpen
    \/ SearchMember
    \/ SearchArchiveEnd
    \/ SearchFile
    \/ SearchMirrorEnd
    \/ SearchEnd

(***************************************************************************)
(* The archive stream reader (open_tar_zst, lines 77-89) and a scope       *)
(* `with open_tar_zst(path) as tf:` that reads members of the archive.     *)
(***************************************************************************)
HdInit ==
    /\ hpc = [i \in Ids |-> "idle"]
    /\ hfh = [i \in Ids |-> "none"]
    /\ hreader = [i \in Ids |-> "none"]
    /\ htf = [i \in Ids |-> "none"]
    /\ hread = [i \in Ids |-> 0]
    /\ hexit = [i \in Ids |-> "none"]

\* lines 80-81: fh = open(path, 'rb'); a missing file raises and nothing
\* was acquired
ScopeOpenFile(i) ==
    /\ i \in live
    /\ hpc[i] = "idle"
    /\ \E ok \in BOOLEAN :
          IF ok
          THEN /\ hfh' = [hfh EXCEPT ![i] = "open"]
               /\ hpc' = [hpc EXCEPT ![i] = "fh"]
               /\ UNCHANGED hexit
          ELSE /\ hpc' = [hpc EXCEPT ![i] = "left"]
               /\ hexit' = [hexit EXCEPT ![i] = "no_file"]
               /\ UNCHANGED hfh
    /\ UNCHANGED << hreader, htf, hread, outsideScope >>

\* line 82: reader = dctx.stream_reader(fh)
ScopeStreamReader(i) ==
    /\ hpc[i] = "fh"
    /\ hreader' = [hreader EXCEPT ![i] = "open"]
    /\ hpc' = [hpc EXCEPT ![i] = "reader"]
    /\ UNCHANGED << hfh, htf, hread, hexit, outsideScope >>

\* line 83: tf = tarfile.open(fileobj=reader, mode='r|') reads the first
\* header; on a corrupt archive it raises, and the statement stands before
\* the try of line 84: the generator is left with fh and reader as they are
ScopeTarOpen(i) ==
    /\ hpc[i] = "reader"
    /\ \E ok \in BOOLEAN :
          IF ok
          THEN /\ htf' = [htf EXCEPT ![i] = "open"]
               /\ hpc' = [hpc EXCEPT ![i] = "body"]
               /\ UNCHANGED hexit
          ELSE /\ hpc' = [hpc EXCEPT ![i] = "left"]
               /\ hexit' = [hexit EXCEPT ![i] = "open_raised"]
               /\ UNCHANGED htf
    /\ UNCHANGED << hfh, hreader, hread, outsideScope >>

\* the body of the scope reads the next member (line 85: yield tf)
ScopeRead(i) ==
    /\ hpc[i] = "body"
    /\ hread[i] < MaxMembers
    /\ hread' = [hread EXCEPT ![i] = @ + 1]
    /\ UNCHANGED << hpc, hfh, hreader, htf, hexit, outsideScope >>

\* the body ends, breaks out of its loop or raises; lines 86-89 close tf,
\* reader and fh
ScopeLeave(i) ==
    /\ hpc[i] = "body"
    /\ \E how \in { "end", "break", "body_raised" } :
          hexit' = [hexit EXCEPT ![i] = how]
    /\ htf' = [htf EXCEPT ![i] = "closed"]
    /\ hreader' = [hreader EXCEPT ![i] = "closed"]
    /\ hfh' = [hfh EXCEPT ![i] = "closed"]
    /\ hpc' = [hpc EXCEPT ![i] = "left"]
    /\ UNCHANGED << hread, outsideScope >>

\* after the scope, the objects it left open are closed if and when the
\* interpreter reclaims them
ScopeCollect(i) ==
    /\ hpc[i] = "left"
    /\ hfh[i] = "open" \/ hreader[i] = "open"
    /\ hfh' = [hfh EXCEPT ![i] = "closed"]
    /\ hreader' = [hreader EXCEPT ![i] = "closed"]
    /\ UNCHANGED << hpc, htf, hread, hexit, outsideScope >>

HdStep(i) ==
    \/ ScopeOpenFile(i)
    \/ ScopeStreamReader(i)
    \/ ScopeTarOpen(i)
    \/ ScopeRead(i)
    \/ ScopeLeave(i)
    \/ ScopeCollect(i)

HdNext == \E i \in Ids : HdStep(i)

(***************************************************************************)
(* Backup launch, monitoring and stop (app.py: run_job 159-233,            *)
(* monitor_backup_process 107-156, kill_job 236-259; db.py:                *)
(* log_backup_start 227-251, store_log_content_in_db 254-303,              *)
(* log_backup_end 305-390) for one named job.  Flask serves each request   *)
(* in a thread of its own and no lock guards running_processes: the        *)
(* handlers and the monitor threads interleave between the steps below.    *)
(* The child, the backup_runs row and the log file of /run request i are   *)
(* all named i.                                                            *)
(***************************************************************************)
NoEntry == [ process |-> 0, run_id |-> 0, log_file |-> 0 ]
\* lines 208-213
Entry(i) == [ process |-> i, run_id |-> i, log_file |-> i ]

NoRow == [ status |-> "none", seq |-> 0, log_content |-> 0,
           closed_by |-> [ who |-> "none", id |-> 0 ] ]

BkInit ==
    /\ running_processes = NoEntry
    /\ process = [i \in Ids |-> "none"]
    /\ return_code = [i \in Ids |-> "none"]
    /\ signalled = [i \in Ids |-> "none"]
    /\ backup_runs = [i \in Ids |-> NoRow]
    /\ starts = 0
    /\ log_files = {}
    /\ runpc = [i \in Ids |-> "idle"]
    /\ runresp = [i \in Ids |-> "none"]
    /\ monpc = [i \in Ids |-> "none"]
    /\ monlog = [i \in Ids |-> 0]
    /\ monstatus = [i \in Ids |-> "none"]
    /\ killpc = "idle"
    /\ killresp = "none"
    /\ killproc = 0

\* lines 182, 248: process.poll() is None
Polls(i) == process[i] = "alive"

\* db.py lines 328-334: UPDATE backup_runs SET end_time, status ... WHERE
\* job_name = ? AND end_time IS NULL ORDER BY start_time DESC LIMIT 1.  On a
\* build of SQLite without UPDATE ... LIMIT the statement raises and the
\* except of line 389 swallows it: no row changes.
LogBackupEnd(rows, status, who) ==
    LET open == { r \in Ids : rows[r].status = "running" } IN
    IF ~sql_limit \/ open = {} THEN rows
    ELSE LET r == CHOOSE x \in open : \A y \in open : rows[y].seq <= rows[x].seq
         IN  [rows EXCEPT ![r].status = status, ![r].closed_by = who]

\* run_job lines 180-189: the check of the registry
RunCheck(i) ==
    /\ runpc[i] = "idle"
    /\ IF running_processes # NoEntry /\ Polls(running_processes.process)
       THEN /\ runresp' = [runresp EXCEPT ![i] = "already_running"]
            /\ runpc' = [runpc EXCEPT ![i] = "done"]
            /\ UNCHANGED running_processes
       ELSE /\ running_processes' = NoEntry
            /\ runpc' = [runpc EXCEPT ![i] = "spawn"]
            /\ UNCHANGED runresp
    /\ UNCHANGED << process, return_code, signalled, backup_runs, starts, log_files,
                    sql_limit, monpc, monlog, monstatus, killpc, killresp, killproc,
                    outsideBackup >>

\* lines 191-204: subprocess.Popen starts backup.sh, which writes the log
\* file named in BACKUP_LOG_FILE; a failing Popen ends in the except of 231
RunSpawn(i) ==
    /\ runpc[i] = "spawn"
    /\ \E ok \in BOOLEAN :
          IF ok
          THEN /\ process' = [process EXCEPT ![i] = "alive"]
               /\ log_files' = log_files \cup { i }
               /\ runpc' = [runpc EXCEPT ![i] = "spawned"]
               /\ UNCHANGED runresp
          ELSE /\ runresp' = [runresp EXCEPT ![i] = "e500"]
               /\ runpc' = [runpc EXCEPT ![i] = "done"]
               /\ UNCHANGED << process, log_files >>
    /\ UNCHANGED << running_processes, return_code, signalled, backup_runs, starts,
                    sql_limit, monpc, monlog, monstatus, killpc, killresp, killproc,
                    outsideBackup >>

\* line 206: log_backup_start inserts the row of the run, status 'running'
RunLogStart(i) ==
    /\ runpc[i] = "spawned"
    /\ backup_runs' = [backup_runs EXCEPT ![i] =
                         [ NoRow EXCEPT !.status = "running", !.seq = starts + 1 ]]
    /\ starts' = starts + 1
    /\ runpc' = [runpc EXCEPT ![i] = "logged"]
    /\ UNCHANGED << running_processes, process, return_code, signalled, log_files,
                    sql_limit, runresp, monpc, monlog, monstatus, killpc, killresp,
                    killproc, outsideBackup >>

\* lines 208-229: the entry is written, the monitor thread started
RunRegister(i) ==
    /\ runpc[i] = "logged"
    /\ running_processes' = Entry(i)
    /\ monpc' = [monpc EXCEPT ![i] = "wait"]
    /\ runresp' = [runresp EXCEPT ![i] = "started"]
    /\ runpc' = [runpc EXCEPT ![i] = "done"]
    /\ UNCHANGED << process, return_code, signalled, backup_runs, starts, log_files,
                    sql_limit, monlog, monstatus, killpc, killresp, killproc,
                    outsideBackup >>

\* what process.wait() (line 113) can return: the child ends by
\* itself with 0 or 1, on SIGTERM with -15, on SIGKILL with -9
ExitCodes(sig) ==
    IF sig = "none" THEN { "0", "1" }
    ELSE IF sig = "term" THEN { "0", "1", "-15" }
    ELSE { "-15", "-9" }

ProcessExit(i) ==
    /\ process[i] = "alive"
    /\ \E code \in ExitCodes(signalled[i]) :
          return_code' = [return_code EXCEPT ![i] = code]
    /\ process' = [process EXCEPT ![i] = "exited"]
    /\ UNCHANGED << running_processes, signalled, backup_runs, starts, log_files,
                    sql_limit, runpc, runresp, monpc, monlog, monstatus, killpc,
                    killresp, killproc, outsideBackup >>

\* monitor_backup_process lines 109-117: process.wait() returns
MonitorWait(i) ==
    /\ monpc[i] = "wait"
    /\ process[i] = "exited"
    /\ monstatus' = [monstatus EXCEPT ![i] =
                       IF return_code[i] = "0" THEN "success" ELSE "error"]
    /\ monpc' = [monpc EXCEPT ![i] = "entry"]
    /\ UNCHANGED << running_processes, process, return_code, signalled, backup_runs,
                    starts, log_files, sql_limit, runpc, runresp, monlog, killpc,
                    killresp, killproc, outsideBackup >>

\* lines 119-120: log_file_path = running_processes[job_name]['log_file'];
\* with no entry the subscript raises KeyError into the except of line 143
MonitorEntry(i) ==
    /\ monpc[i] = "entry"
    /\ IF running_processes = NoEntry
       THEN /\ monpc' = [monpc EXCEPT ![i] = "except"]
            /\ UNCHANGED monlog
       ELSE /\ monlog' = [monlog EXCEPT ![i] = running_processes.log_file]
            /\ monpc' = [monpc EXCEPT ![i] = "store"]
    /\ UNCHANGED << running_processes, process, return_code, signalled, backup_runs,
                    starts, log_files, sql_limit, runpc, runresp, monstatus, killpc,
                    killresp, killproc, outsideBackup >>

\* line 122, db.py 254-303: store_log_content_in_db(run_id, log_file_path)
\* writes the content of the file into the row run_id and removes the file
MonitorStore(i) ==
    /\ monpc[i] = "store"
    /\ IF monlog[i] \in log_files
       THEN /\ backup_runs' = [backup_runs EXCEPT ![i].log_content = monlog[i]]
            /\ log_files' = log_files \ { monlog[i] }
       ELSE UNCHANGED << backup_runs, log_files >>
    /\ monpc' = [monpc EXCEPT ![i] = "end"]
    /\ UNCHANGED << running_processes, process, return_code, signalled, starts,
                    sql_limit, runpc, runresp, monlog, monstatus, killpc, killresp,
                    killproc, outsideBackup >>

\* lines 124-125: log_backup_end(job_name, status, ...)
MonitorEnd(i) ==
    /\ monpc[i] = "end"
    /\ backup_runs' = LogBackupEnd(backup_runs, monstatus[i],
                                   [ who |-> "monitor", id |-> i ])
    /\ monpc' = [monpc EXCEPT ![i] = "del"]
    /\ UNCHANGED << running_processes, process, return_code, signalled, starts,
                    log_files, sql_limit, runpc, runresp, monlog, monstatus, killpc,
                    killresp, killproc, outsideBackup >>

\* lines 127-141: if job_name in running_processes: del ...; the emits
MonitorDel(i) ==
    /\ monpc[i] = "del"
    /\ running_processes' = NoEntry
    /\ monpc' = [monpc EXCEPT ![i] = "done"]
    /\ UNCHANGED << process, return_code, signalled, backup_runs, starts, log_files,
                    sql_limit, runpc, runresp, monlog, monstatus, killpc, killresp,
                    killproc, outsideBackup >>

\* lines 143-156: the except clause removes the entry, if any, and records
\* the end of a run as 'error'
MonitorExcept(i) ==
    /\ monpc[i] = "except"
    /\ running_processes' = NoEntry
    /\ backup_runs' = LogBackupEnd(backup_runs, "error",
                                   [ who |-> "monitor", id |-> i ])
    /\ monpc' = [monpc EXCEPT ![i] = "done"]
    /\ UNCHANGED << process, return_code, signalled, starts, log_files, sql_limit,
                    runpc, runresp, monlog, monstatus, killpc, killresp, killproc,
                    outsideBackup >>

\* kill_job lines 240-245: 404 without an entry, else process.terminate()
KillCheck ==
    /\ killpc = "idle"
    /\ IF running_processes = NoEntry
       THEN /\ killresp' = "e404"
            /\ killpc' = "done"
            /\ UNCHANGED << killproc, signalled >>
       ELSE /\ killproc' = running_processes.process
            /\ signalled' = [signalled EXCEPT ![running_processes.process] =
                               IF Polls(running_processes.process) THEN "term" ELSE @]
            /\ killpc' = "sleep"
            /\ UNCHANGED killresp
    /\ UNCHANGED << running_processes, process, return_code, backup_runs, starts,
                    log_files, sql_limit, runpc, runresp, monpc, monlog, monstatus,
                    outsideBackup >>

\* lines 247-249: after two seconds, process.kill() if it still runs
KillPoll ==
    /\ killpc = "sleep"
    /\ signalled' = [signalled EXCEPT ![killproc] = IF Polls(killproc) THEN "kill" ELSE @]
    /\ killpc' = "end"
    /\ UNCHANGED << running_processes, process, return_code, backup_runs, starts,
                    log_files, sql_limit, runpc, runresp, monpc, monlog, monstatus,
                    killresp, killproc, outsideBackup >>

\* line 251: log_backup_end(job, 'killed', ...)
KillEnd ==
    /\ killpc = "end"
    /\ backup_runs' = LogBackupEnd(backup_runs, "killed", [ who |-> "kill", id |-> 0 ])
    /\ killpc' = "del"
    /\ UNCHANGED << running_processes, process, return_code, signalled, starts,
                    log_files, sql_limit, runpc, runresp, monpc, monlog, monstatus,
                    killresp, killproc, outsideBackup >>

\* lines 252-259: del running_processes[job] raises KeyError without an
\* entry, and the except of line 257 answers 500
KillDel ==
    /\ killpc = "del"
    /\ killresp' = IF running_processes = NoEntry THEN "e500" ELSE "killed"
    /\ running_processes' = NoEntry
    /\ killpc' = "done"
    /\ UNCHANGED << process, return_code, signalled, backup_runs, starts, log_files,
                    sql_limit, runpc, runresp, monpc, monlog, monstatus, killproc,
                    outsideBackup >>

\* cleanup_finished_processes (lines 296-307), called every 30 seconds by
\* the thread of run.py lines 35-45: the entry of a finished child is removed
CleanupFinished ==
    /\ running_processes # NoEntry
    /\ ~Polls(running_processes.process)
    /\ running_processes' = NoEntry
    /\ UNCHANGED << process, return_code, signalled, backup_runs, starts, log_files,
                    sql_limit, runpc, runresp, monpc, monlog, monstatus, killpc,
                    killresp, killproc, outsideBackup >>

BkStep(i) ==
    \/ RunCheck(i)
    \/ RunSpawn(i)
    \/ RunLogStart(i)
    \/ RunRegister(i)
    \/ ProcessExit(i)
    \/ MonitorWait(i)
    \/ MonitorEntry(i)
    \/ MonitorStore(i)
    \/ MonitorEnd(i)
    \/ MonitorDel(i)
    \/ MonitorExcept(i)

BkNext ==
    \/ \E i \in Ids : BkStep(i)
    \/ KillCheck
    \/ KillPoll
    \/ KillEnd
    \/ KillDel
    \/ CleanupFinished

\* the initial state of the handlers other than download, restore, browse;
\* none of them but the backup launcher issues an UPDATE ... LIMIT
ExInit == CpInit /\ LsInit /\ SeInit /\ HdInit /\ BkInit /\ sql_limit = TRUE

(***************************************************************************)
(* Specifications                                                          *)
(***************************************************************************)
\* _rclone_download_archive run alone: one request at a time
DlAloneInit == DlInit /\ RsInit /\ BrInit /\ ExInit /\ live = {1}
SpecDownload == DlAloneInit /\ [][DlNext]_vars

\* two concurrent requests for the same remote archive
DlConcInit == DlInit /\ RsInit /\ BrInit /\ ExInit /\ live = Ids
SpecDownloadConc == DlConcInit /\ [][DlNext]_vars

\* one restore request and its background thread
RsOneInit == DlInit /\ RsInit /\ BrInit /\ ExInit /\ live = {1}
SpecRestore == RsOneInit /\ [][RsNext]_vars

\* one browse request
BrOneInit == DlInit /\ RsInit /\ BrInit /\ ExInit /\ live = {1}
SpecBrowse == BrOneInit /\ [][BrNext]_vars

\* two restore requests, each with its background thread
RsConcInit == DlInit /\ RsInit /\ BrInit /\ ExInit /\ live = Ids
SpecRestoreConc == RsConcInit /\ [][RsConcNext]_vars

\* two browses of one archive with the prefixes p and p/
BrPairInit == DlInit /\ RsInit /\ BrInit /\ ExInit /\ live = Ids
SpecBrowsePair == BrPairInit /\ [][PairNext]_vars

\* two /run requests and one /kill request for one job
BkConcInit ==
    /\ DlInit /\ RsInit /\ BrInit /\ CpInit /\ LsInit /\ SeInit /\ HdInit /\ BkInit
    /\ sql_limit \in BOOLEAN
    /\ live = Ids
SpecBackup == BkConcInit /\ [][BkNext]_vars

\* one restore request whose thread keeps being scheduled and whose
\* external steps (download, extraction, copy, subprocess) return
SpecRestoreLive ==
    RsOneInit /\ [][RsNext]_vars /\ WF_tpc(ThreadAdvance)

\* one list request
LsOneInit == DlInit /\ RsInit /\ BrInit /\ ExInit /\ live = {1}
SpecList == LsOneInit /\ [][LsNext]_vars

\* one search request; a search does not look at the size of the remote file
SeOneInit == DlInit /\ RsInit /\ BrInit /\ ExInit /\ live = {1} /\ rsize = 0
SpecSearch == SeOneInit /\ [][SeNext]_vars

\* two requests that each open an archive
HdConcInit == DlInit /\ RsInit /\ BrInit /\ ExInit /\ live = Ids
SpecScope == HdConcInit /\ [][HdNext]_vars

\* one request, a list or a search
LsSeNext == (spc = "idle" /\ LsNext) \/ (lpc = "idle" /\ SeNext)
SpecListSearch == LsOneInit /\ [][LsSeNext]_vars

\* one browse of an archive or a listing longer than the cap
CpOneInit == DlInit /\ RsInit /\ BrInit /\ ExInit /\ live = {1}
SpecCap == CpOneInit /\ [][CpNext]_vars

(***************************************************************************)
(* Properties of the restore executor                                      *)
(***************************************************************************)
Handled(i) == rresp[i] # "none"
Terminal(ev) == ev.status \in { "success", "error" }
NothingDone(i) ==
    /\ TargetOf(rin[i]) \notin made
    /\ tpc[i] = "none"
    /\ events[i] = << >>

\* the canonical form of a supplied target starts with none of the two roots
OutsideRestoreRoots(target_path) ==
    /\ target_path # EmptyStr
    /\ ~StartsWith(Realpath(target_path), << "/", "d", "a", "t", "a", "/" >>)
    /\ ~StartsWith(Realpath(target_path),
                   << "/", "t", "m", "p", "/", "r", "e", "s", "t", "o", "r", "e", "/" >>)

\* C1 as stated: every request that supplies a target_path outside /data/
\* and /tmp/restore/ is answered 403, and creates no directory, starts no
\* thread and emits no event.
C1_OutsideTargetIs403 ==
    \A i \in Ids :
        (Handled(i) /\ rin[i].json /\ OutsideRestoreRoots(rin[i].target_path))
            => (rresp[i] = "e403" /\ NothingDone(i))

\* C1 (as amended): the same for every request that names a configured job;
\* a request that names no configured job is answered 404 before the target
\* is looked at, and it too creates nothing, starts nothing and emits nothing.
C1_OutsideTargetRejected ==
    \A i \in Ids :
        (Handled(i) /\ rin[i].json /\ OutsideRestoreRoots(rin[i].target_path))
            => /\ NothingDone(i)
               /\ rresp[i] = IF HasConfig(rin[i].job_name) THEN "e403" ELSE "e404"

\* a request for a configured job with a target that climbs out of /data/
C1_Witness ==
    /\ rresp[1] = "e403"
    /\ rin[1].target_path = T_data_up
    /\ rin[1].job_name = "loc_arc"

\* the request is a restore from an archive of a local job whose backup_file
\* is not under the job's destination root
ArchiveOutsideRoot(inp) ==
    /\ inp.json
    /\ HasConfig(inp.job_name)
    /\ ~IsRemote(inp.job_name)
    /\ Config(inp.job_name).mode = "compression"
    /\ inp.backup_file # EmptyStr
    /\ ~UnderRoot(PathJoin(Config(inp.job_name).dest_path, inp.backup_file),
                  Config(inp.job_name).dest_path)

\* C3: a local archive restore whose backup_file resolves outside the
\* destination root is rejected in the synchronous response, before the
\* target directory is created, the thread started or an event emitted.
C3_ArchiveEscapeRejectedSynchronously ==
    \A i \in Ids :
        (Handled(i) /\ ArchiveOutsideRoot(rin[i]))
            => (rresp[i] # "started" /\ NothingDone(i))

\* C4: the events of an accepted restore start with `running` and hold
\* exactly one terminal event, which is the last one.
C4_EventsWellFormed ==
    \A i \in Ids :
        LET ev == events[i] IN
        /\ rresp[i] # "started" => ev = << >>
        /\ Len(ev) > 0 => ev[1].status = "running"
        /\ \A k \in 1..(Len(ev) - 1) : ev[k].status = "running"
        /\ tpc[i] = "t_end" <=> (Len(ev) > 0 /\ Terminal(ev[Len(ev)]))

\* a remote archive restore has ended with success after its three
\* running events
C4_Witness ==
    /\ tpc[1] = "t_end"
    /\ Len(events[1]) = 4
    /\ events[1][4].status = "success"
    /\ rwork[1].branch = "rem_arc"

\* C5: a restore in which a step failed ends with the terminal event
\* `error`, and the synchronous response stays `started`.
C5_FailedStepEndsInError ==
    \A i \in Ids :
        (tpc[i] = "t_end" /\ rwork[i].failed)
            => /\ events[i][Len(events[i])].status = "error"
               /\ rresp[i] = "started"

\* the first position of the stream by which every requested name that
\* occurs in it has occurred
FoundAllAt(stream, names) ==
    LET found == names \cap Range(stream)
        ok == { k \in 0..Len(stream) : found \subseteq Range(SubSeq(stream, 1, k)) }
    IN  CHOOSE k \in ok : \A j \in ok : k <= j

\* C6: a successful archive restore with an explicit file set extracts every
\* requested name the archive holds and nothing else, reads the stream at
\* least up to where all of them have been found, and reports their number.
C6_SelectedEntriesRestored ==
    \A i \in Ids :
        (/\ tpc[i] = "t_end"
         /\ rwork[i].branch \in { "loc_arc", "rem_arc" }
         /\ ~rwork[i].raised
         /\ rin[i].files # << >>)
            => LET names == Range(rin[i].files)
                   stream == rwork[i].stream
                   found == names \cap Range(stream)
               IN  /\ found \subseteq Range(rwork[i].ext)
                   /\ Range(rwork[i].ext) \subseteq names
                   /\ rwork[i].read >= FoundAllAt(stream, names)
                   /\ events[i][Len(events[i])].n = Cardinality(found)

\* C17: an accepted restore whose external steps return reaches a terminal
\* event, and once it has emitted it, it emits nothing more and does not
\* run again.
C17_AcceptedRestoreFinishes ==
    /\ (\E i \in Ids : rresp[i] = "started")
          ~> (\A i \in Ids : rresp[i] = "started" => tpc[i] = "t_end")
    /\ [][\A i \in Ids :
            tpc[i] = "t_end" => (tpc'[i] = "t_end" /\ events'[i] = events[i])]_vars

\* a restore whose archive download failed has ended with `error`
C17_Witness ==
    /\ tpc[1] = "t_end"
    /\ rwork[1].branch = "rem_arc"
    /\ rwork[1].raised
    /\ events[1][Len(events[1])].status = "error"

\* the job named is a row of job_configs with enabled = 0
Disabled(job) == HasConfig(job) /\ ~Config(job).enabled

\* C16: a Restore or a Browse request that names a disabled job is answered
\* with a client error, reads no backup and starts no background thread.
C16_DisabledJobRefused ==
    \A i \in Ids :
        /\ (Handled(i) /\ rin[i].json /\ Disabled(rin[i].job_name))
              => /\ rresp[i] \in { "e400", "e403", "e404" }
                 /\ tpc[i] = "none"
        /\ (bresp[i] # "none" /\ Disabled(bin[i].job_name))
              => /\ bresp[i] \in { "e403", "e404" }
                 /\ bopened[i] = {}

\* the request names an archive-mode job and gives no backup_file
OmitsBackupFile(inp) ==
    /\ inp.json
    /\ HasConfig(inp.job_name)
    /\ Config(inp.job_name).mode = "compression"
    /\ inp.backup_file = EmptyStr

\* C21: a Restore request for an archive-mode job that omits backup_file,
\* on a local or a remote backend, never ends with a terminal `success`
\* event: it is rejected or ends in `error`.
C21_ArchiveRestoreNeedsBackupFile ==
    \A i \in Ids :
        (Handled(i) /\ OmitsBackupFile(rin[i]))
            => \A k \in DOMAIN events[i] : events[i][k].status # "success"

\* the background thread of request i has been started and has not returned
Running(i) == tpc[i] \notin { "none", "t_end" }

\* C22: restores have no queue and no single-flight guard.  The answer to a
\* Restore request is decided by its own body and by os.makedirs alone,
\* whatever other restores are running.
C22_NoSingleFlight ==
    \A i \in Ids :
        Handled(i) =>
            rresp[i] \in { RunResponse(rin[i], "ok"), RunResponse(rin[i], "oserror") }

\* two threads for the same job, the same files and the same target_path
\* are running at once: one was accepted while the other was at work
C22_Witness ==
    /\ tpc[1] = "t1" /\ tpc[2] = "t0"
    /\ rin[1].job_name = "loc_dir" /\ rin[2].job_name = "loc_dir"
    /\ rin[1].files = << FileA >> /\ rin[2].files = << FileA >>
    /\ rin[1].target_path = T_data_o /\ rin[2].target_path = T_data_o
    /\ events[1] # << >> /\ events[2] = << >>

\* the thread of request i has called _rclone_download_archive (line 437)
DownloadCalled(i) ==
    /\ rresp[i] = "started"
    /\ Branch(rin[i]) = "rem_arc"
    /\ tpc[i] \in { "t_ext", "t_exc", "t_ok", "t_end" }

\* browse request i has called _rclone_download_archive (line 223)
BrowseDownloadCalled(i) ==
    /\ bpc[i] # "idle"
    /\ HasConfig(bin[i].job_name)
    /\ IsRemote(bin[i].job_name)
    /\ Config(bin[i].job_name).mode = "compression"
    /\ bin[i].file # EmptyStr

\* C26: for every filename the download is called with, the cache path
\* that is checked, written, returned and deleted on failure lies under
\* /tmp/restore/_rclone_cache, filenames with '..' segments and absolute
\* filenames included; no file of the cache lies outside it.
C26_CachePathUnderCacheRoot ==
    /\ \A i \in Ids :
          /\ DownloadCalled(i)
                => UnderRoot(LocalPath(rin[i].backup_file), RCLONE_CACHE_DIR)
          /\ BrowseDownloadCalled(i)
                => UnderRoot(LocalPath(bin[i].file), RCLONE_CACHE_DIR)
    /\ \A key \in DOMAIN cache : UnderRoot(key, RCLONE_CACHE_DIR)

\* C27: a local mirror restore with an explicit file list reports in its
\* terminal success message the number of requested paths that were copied
\* into target_path; a path skipped because it does not canonicalize under
\* the source root is not counted.
C27_MirrorCountIsCopied ==
    \A i \in Ids :
        (rresp[i] = "started" /\ Branch(rin[i]) = "loc_dir_files")
            => \A k \in DOMAIN events[i] :
                  events[i][k].status = "success"
                      => events[i][k].n = Len(rwork[i].ext)

(***************************************************************************)
(* Properties of the backup launcher                                       *)
(***************************************************************************)
\* C28: under any interleaving of /run requests for one job at most one
\* backup process of the job is alive at a time; a request answered
\* `already_running` has started no process and leaves the registry entry
\* as it is.
C28_OneBackupProcessPerJob ==
    /\ [](Cardinality({ i \in Ids : process[i] = "alive" }) <= 1)
    /\ [](\A i \in Ids : runresp[i] = "already_running" => process[i] = "none")
    /\ [][\A i \in Ids :
            (runresp[i] = "none" /\ runresp'[i] = "already_running")
                => running_processes' = running_processes]_vars

\* C29: the monitor thread of a backup process acts on its own run only: the
\* log it stores and the run it closes are those of the process it waited
\* on, and it removes the entry of the job only if the entry refers to that
\* process.
C29_MonitorActsOnOwnRun ==
    /\ [](\A i \in Ids :
            /\ monlog[i] \in { 0, i }
            /\ backup_runs[i].log_content \in { 0, i }
            /\ backup_runs[i].closed_by.who = "monitor"
                  => backup_runs[i].closed_by.id = i)
    /\ [][\A i \in Ids :
            (/\ monpc[i] \in { "del", "except" }
             /\ monpc'[i] = "done"
             /\ running_processes # NoEntry)
                => running_processes.process = i]_vars

\* the /kill request found the job tracked and its process running
KilledRunning == killproc # 0 /\ signalled[killproc] # "none"

\* C30: a /kill of a tracked, running job answers `killed`, the run is
\* closed once, by the request, with the status `killed`, and when the
\* request answers the job has no entry; a /kill of a job that is not
\* tracked answers 404 and changes nothing.
C30_KillRecordsKilled ==
    /\ []((killpc = "done" /\ KilledRunning)
            => /\ killresp = "killed"
               /\ backup_runs[killproc].status = "killed"
               /\ backup_runs[killproc].closed_by.who = "kill")
    /\ [][(killpc # "done" /\ killpc' = "done" /\ killproc' # 0)
            => running_processes' = NoEntry]_vars
    /\ [][(killpc = "idle" /\ running_processes = NoEntry /\ killpc' # "idle")
            => /\ killresp' = "e404"
               /\ UNCHANGED << running_processes, process, signalled, backup_runs,
                               log_files >>]_vars

(***************************************************************************)
(* Properties of the browser                                              *)
(***************************************************************************)
\* C2: for a local job, every path a browse or a restore opens, enumerates
\* or copies is the destination root or a descendant of it, compared
\* segment by segment.
C2_OpenedPathsUnderRoot ==
    \A i \in Ids :
        /\ (HasConfig(bin[i].job_name) /\ ~IsRemote(bin[i].job_name))
              => \A q \in bopened[i] :
                    UnderRoot(q, Config(bin[i].job_name).dest_path)
        /\ (HasConfig(rin[i].job_name) /\ ~IsRemote(rin[i].job_name))
              => \A q \in rwork[i].opened :
                    UnderRoot(q, Config(rin[i].job_name).dest_path)

NoSlash(str) == \A k \in 1..Len(str) : str[k] # "/"

\* the path is the prefix followed by one non-empty segment, and by '/'
\* for a directory node
OneSegmentBeyond(prefix, node) ==
    /\ StartsWith(node.path, prefix)
    /\ LET rest == SubSeq(node.path, Len(prefix) + 1, Len(node.path)) IN
       IF node.type = "directory"
       THEN /\ Len(rest) >= 2
            /\ rest[Len(rest)] = "/"
            /\ NoSlash(SubSeq(rest, 1, Len(rest) - 1))
       ELSE Len(rest) >= 1 /\ NoSlash(rest)

\* C10: every entry an archive browse returns has a path made of the
\* normalized prefix and exactly one non-empty segment.
C10_OneSegmentBeyondPrefix ==
    \A i \in Ids :
        (HasConfig(bin[i].job_name) /\ Config(bin[i].job_name).mode = "compression")
            => \A k \in 1..Len(entries[i]) :
                  OneSegmentBeyond(NormalizePrefix(bin[i].path), entries[i][k])

\* the part of a name before its first '/'
FirstSegment(name) ==
    LET cut == { k \in 1..Len(name) : name[k] = "/" } IN
    IF cut = {} THEN name
    ELSE SubSeq(name, 1, (CHOOSE k \in cut : \A j \in cut : k <= j) - 1)

\* the node that stands for an archive member at the root
RootNodeOf(m) ==
    IF ~m.isdir /\ NoSlash(m.name)
    THEN Node(m.name, "file", m.name)
    ELSE Node(FirstSegment(m.name), "directory", FirstSegment(m.name) \o << "/" >>)

\* an archive browse at the root that has answered
RootBrowseDone(i) ==
    /\ bpc[i] = "done"
    /\ bresp[i] = "ok"
    /\ HasConfig(bin[i].job_name)
    /\ Config(bin[i].job_name).mode = "compression"
    /\ bin[i].file # EmptyStr
    /\ bin[i].path = EmptyStr

\* C11: an archive browse at the root returns exactly the distinct top-level
\* files and the distinct first segments of the deeper entries of the
\* archive, each as one node: no entry is lost, no node is returned twice.
C11_RootNodesPartitionEntries ==
    \A i \in Ids :
        RootBrowseDone(i) =>
            /\ \A j, k \in 1..Len(entries[i]) :
                  j # k => entries[i][j] # entries[i][k]
            /\ Range(entries[i]) =
                  { RootNodeOf(bstream[i][k]) :
                      k \in { n \in 1..Len(bstream[i]) : bstream[i][n].name # EmptyStr } }

\* an archive browse that has entered its loop over the members
ArchiveBrowse(i) ==
    /\ bpc[i] \in { "loop", "done" }
    /\ HasConfig(bin[i].job_name)
    /\ Config(bin[i].job_name).mode = "compression"
    /\ bin[i].file # EmptyStr
    /\ bresp[i] \in { "none", "ok" }

\* the name of a member as the loop compares it: a directory entry ends in '/'
MemberName(m) ==
    IF m.isdir /\ (m.name = EmptyStr \/ m.name[Len(m.name)] # "/")
    THEN m.name \o << "/" >> ELSE m.name

\* the member lies under the prefix and is not the prefix directory itself
UnderPrefix(prefix, m) ==
    /\ StartsWith(MemberName(m), prefix)
    /\ SubSeq(MemberName(m), Len(prefix) + 1, Len(MemberName(m)))
          \notin { EmptyStr, << "/" >> }

\* what follows the prefix in the name of a member under it
Remainder(prefix, m) == SubSeq(MemberName(m), Len(prefix) + 1, Len(MemberName(m)))

\* the remainder goes on after a '/': the entry lies deeper than one segment
Deeper(rel) == \E k \in 1..(Len(rel) - 1) : rel[k] = "/" /\ rel[k + 1] # "/"

\* the members read so far that a directory node stands for
DirSources(i) ==
    { k \in 1..Len(bstream[i]) :
        /\ UnderPrefix(bprefix[i], bstream[i][k])
        /\ (bstream[i][k].isdir \/ Deeper(Remainder(bprefix[i], bstream[i][k]))) }

\* C23: an archive browse returns a directory node at most once per distinct
\* first segment under the prefix, whether the segment comes from a directory
\* entry or from a deeper file; the directory nodes are exactly the first
\* segments of those entries; an entry whose remainder has two or more
\* segments gives no file node.  Entries a/b, a/b/c, ab/c browsed at the
\* root give the two directory nodes a/ and ab/ and no file node.
C23_DirectoryNodeOncePerSegment ==
    \A i \in Ids :
        ArchiveBrowse(i) =>
            LET dirs == { k \in 1..Len(entries[i]) : entries[i][k].type = "directory" }
                prefix == bprefix[i]
            IN
            /\ \A j, k \in dirs : j # k => entries[i][j].name # entries[i][k].name
            /\ { entries[i][k] : k \in dirs } =
                  { Node(FirstSegment(Remainder(prefix, bstream[i][k])), "directory",
                         prefix \o FirstSegment(Remainder(prefix, bstream[i][k]))
                                \o << "/" >>) : k \in DirSources(i) }
            /\ \A k \in 1..Len(bstream[i]) :
                  (/\ UnderPrefix(prefix, bstream[i][k])
                   /\ Deeper(Remainder(prefix, bstream[i][k])))
                      => \A n \in 1..Len(entries[i]) :
                            entries[i][n].type = "file"
                                => entries[i][n].path # MemberName(bstream[i][k])
            /\ (/\ prefix = EmptyStr
                /\ bstream[i] = << Member(N_a_b, FALSE), Member(N_a_b_c, FALSE),
                                   Member(N_ab_c, FALSE) >>)
                  => entries[i] = << Node(N_a, "directory", << "a", "/" >>),
                                     Node(N_ab, "directory", << "a", "b", "/" >>) >>

\* the browse of the three deeper entries has answered with the two
\* directory nodes
C23_Witness ==
    /\ ArchiveBrowse(1)
    /\ bresp[1] = "ok"
    /\ bin[1].path = EmptyStr
    /\ bstream[1] = << Member(N_a_b, FALSE), Member(N_a_b_c, FALSE),
                       Member(N_ab_c, FALSE) >>
    /\ Len(entries[1]) = 2

\* requests 1 and 2 browse one archive with the prefixes p and p/ and have
\* read the same members
SamePrefixPair ==
    /\ ArchiveBrowse(1) /\ ArchiveBrowse(2)
    /\ bin[1].job_name = bin[2].job_name /\ bin[1].file = bin[2].file
    /\ bin[1].path # EmptyStr
    /\ bin[1].path[Len(bin[1].path)] # "/"
    /\ bin[2].path = bin[1].path \o << "/" >>
    /\ bstream[1] = bstream[2]

\* C24: for a non-empty prefix p without a trailing '/', browsing with p
\* and with p/ returns the same entries in the same order; every returned
\* entry lies strictly below p/, so an entry that shares p only as the
\* beginning of a longer first segment is not returned and the prefix
\* directory itself is skipped.
C24_PrefixNormalized ==
    SamePrefixPair =>
        /\ entries[1] = entries[2]
        /\ \A i \in Ids : \A k \in 1..Len(entries[i]) :
              /\ StartsWith(entries[i][k].path, bin[2].path)
              /\ Len(entries[i][k].path) > Len(bin[2].path)
        /\ \A i \in Ids :
              Cardinality({ k \in 1..Len(entries[i]) : entries[i][k].type = "file" })
                  = Cardinality({ k \in 1..Len(bstream[i]) :
                            /\ ~bstream[i][k].isdir
                            /\ StartsWith(bstream[i][k].name, bin[2].path)
                            /\ NoSlash(SubSeq(bstream[i][k].name, Len(bin[2].path) + 1,
                                              Len(bstream[i][k].name)))
                            /\ Len(bstream[i][k].name) > Len(bin[2].path) })

\* prefix a on an archive holding ab/c, the directory a and a/b: both
\* requests have answered with the one file node a/b
C24_Witness ==
    /\ SamePrefixPair
    /\ bin[1].path = N_a
    /\ bresp[1] = "ok" /\ bresp[2] = "ok"
    /\ bstream[1] = << Member(N_ab_c, FALSE), Member(N_a, TRUE), Member(N_a_b, FALSE) >>
    /\ entries[1] = << Node(N_b, "file", N_a_b) >>

\* C12: a browse never holds more than 500 entries, in each of the four
\* branches, and once 500 entries are held nothing more is read from the
\* archive or the listing.
C12_AtMostCapEntries ==
    /\ [](clen <= BROWSE_CAP)
    /\ [](clen >= BROWSE_CAP => cpc = "done")
    /\ [][clen >= BROWSE_CAP => (cread' = cread /\ cfetched' = cfetched)]_vars

\* a local mirror browse stopped at the cap before the end of a longer
\* listing
C12_Witness ==
    /\ cpc = "done"
    /\ cbranch = "loc_dir"
    /\ clen = BROWSE_CAP
    /\ cread < ctotal

(***************************************************************************)
(* Properties of search, list and the archive stream reader                *)
(***************************************************************************)
\* the length of a string without its leading and trailing blanks
TrimmedLen(str) ==
    LET solid == { k \in 1..Len(str) : str[k] # " " } IN
    IF solid = {} THEN 0
    ELSE (CHOOSE k \in solid : \A j \in solid : j <= k)
         - (CHOOSE k \in solid : \A j \in solid : k <= j) + 1

\* C13: a query of fewer than 3 characters after trimming is answered 400
\* with no job configuration read, no backend consulted and no archive
\* downloaded or opened; a query of exactly 3 characters is accepted.
C13_ShortQueryRejected ==
    /\ (spc # "idle" /\ TrimmedLen(sq) < 3)
          => /\ sresp = "e400"
             /\ sjob = 0
             /\ svisited = << >>
             /\ sopened = << >>
             /\ sdl = << >>
             /\ results = << >>
    /\ (spc # "idle" /\ TrimmedLen(sq) = 3)
          => (sresp # "e400" /\ sjob >= 1)

\* a query of three characters between blanks was searched and matched
C13_Witness ==
    /\ sq = << " ", "a", "b", "x", " " >>
    /\ sresp = "ok"
    /\ results # << >>

JobIndex(job) == CHOOSE n \in 1..Len(AllJobs) : AllJobs[n] = job

\* C14: a search never holds more than 50 results; once it holds 50 it
\* adds no result, opens and downloads no archive and consults no further
\* job; the results are in the order of the jobs.
C14_SearchStopsAtCap ==
    /\ [](Len(results) <= 50)
    /\ [][Len(results) >= 50 =>
            /\ results' = results
            /\ sopened' = sopened
            /\ sdl' = sdl
            /\ svisited' = svisited]_vars
    /\ [](\A k \in 1..(Len(results) - 1) :
             JobIndex(results[k].job_name) <= JobIndex(results[k + 1].job_name))

\* a search answered with 50 results of two jobs, jobs remaining
C14_Witness ==
    /\ sresp = "ok"
    /\ Len(results) = 50
    /\ results[1].job_name # results[50].job_name
    /\ sjob < Len(sjobs)

\* the archives of a job a search opened, and those it downloaded, in order
OpenedOf(job) == SelectSeq(sopened, LAMBDA e : e.job = job)
DownloadsOf(job) == SelectSeq(sdl, LAMBDA e : e.job = job)

\* the n most recent archives of a listing by filename: the names ending
\* in .tar.zst that fewer than n archive names of the listing follow
MostRecent(listing, n) ==
    LET names == { listing[k] : k \in { j \in 1..Len(listing) :
                                          Len(listing[j]) >= Len(ArchiveExt)
                                          /\ SubSeq(listing[j],
                                                    Len(listing[j]) - Len(ArchiveExt) + 1,
                                                    Len(listing[j])) = ArchiveExt } }
    IN  { a \in names : Cardinality({ b \in names : StrLess(a, b) }) < n }

\* the most recent archives of each listing a job can have
RecentArchives ==
    [ listing \in SearchListings |->
        [ n \in { 1, 3 } |-> MostRecent(listing, n) ] ]

\* C25: of an archive-mode job a search opens only the most recent archives
\* by filename, the most recent first: at most 3 of a local job, at most 1
\* of a remote job, for which at most one download is issued; a search
\* that ends below the cap has gone through all of them and no further,
\* whether or not they hold a match.
C25_SearchScansMostRecentArchives ==
    \A n \in 1..Len(skinds) :
        LET job == skinds[n].job
            limit == IF IsRemote(job) THEN 1 ELSE 3
            recent == RecentArchives[skinds[n].listing][limit]
            opened == OpenedOf(job)
            fetched == DownloadsOf(job)
        IN  Config(job).mode = "compression" =>
                /\ Len(opened) <= limit
                /\ \A k \in 1..Len(opened) : opened[k].archive \in recent
                /\ \A j, k \in 1..Len(opened) :
                      j < k => StrLess(opened[k].archive, opened[j].archive)
                /\ IF IsRemote(job)
                   THEN /\ Len(fetched) <= 1
                        /\ \A k \in 1..Len(fetched) : fetched[k].archive \in recent
                   ELSE fetched = << >>
                /\ (spc = "done" /\ sresp = "ok" /\ Len(results) < SEARCH_CAP)
                      => IF IsRemote(job)
                         THEN { fetched[k].archive : k \in 1..Len(fetched) } = recent
                         ELSE { opened[k].archive : k \in 1..Len(opened) } = recent

\* a search without a single match has answered after opening three of the
\* four archives of the local job and downloading one of the remote job
C25_Witness ==
    /\ spc = "done" /\ sresp = "ok"
    /\ results = << >>
    /\ \E n \in 1..Len(skinds) :
          /\ skinds[n].job = "loc_arc"
          /\ skinds[n].listing = << A1, B1, A10, A2 >>
    /\ OpenedOf("loc_arc") = << [ job |-> "loc_arc", archive |-> B1 ],
                                [ job |-> "loc_arc", archive |-> A2 ],
                                [ job |-> "loc_arc", archive |-> A10 ] >>
    /\ \E n \in 1..Len(skinds) :
          /\ skinds[n].job = "rem_arc"
          /\ skinds[n].listing = << A1, B1, A10, A2 >>
    /\ DownloadsOf("rem_arc") = << [ job |-> "rem_arc", archive |-> B1 ] >>

ResultsOf(job) == { k \in 1..Len(results) : results[k].job_name = job }

\* C15: a mirror job contributes at most 10 results to a search.
C15_MirrorJobAtMostTen ==
    \A job \in Jobs :
        Config(job).mode = "direct" => Cardinality(ResultsOf(job)) <= 10

\* a local mirror with more matches contributed 10, after other results
C15_Witness ==
    /\ Cardinality(ResultsOf("loc_dir")) = 10
    /\ Len(results) > 10
    /\ spc = "jobs"

\* the failures of a backend the handlers absorb: a remote command that
\* exits non-zero, times out or raises, a missing local destination
Absorbed == { "nonzero", "timeout", "exception", "missing" }
OnlyAbsorbed(kinds) == \A k \in 1..Len(kinds) : kinds[k].kind \in Absorbed \cup { "ok" }

\* C18: when backends fail in those ways, the list and the search still
\* answer normally, the failed job has no backups and no results, and
\* every enabled job is listed, or searched unless the cap ended the search.
C18_BackendFailureDegradesPerJob ==
    /\ (lpc = "done" /\ OnlyAbsorbed(lkinds))
          => /\ lresp = "ok"
             /\ [k \in 1..Len(lresult) |-> lresult[k].job_name] = EnabledJobs(ljobs)
             /\ \A k \in 1..Len(lresult) :
                   lkinds[k].kind # "ok" => lresult[k].backups = << >>
    /\ (spc = "done" /\ sresp # "e400" /\ OnlyAbsorbed(skinds))
          => /\ sresp = "ok"
             /\ \A k \in 1..Len(skinds) :
                   skinds[k].kind # "ok" => ResultsOf(skinds[k].job) = {}
             /\ Len(results) < 50 => svisited = EnabledJobs(sjobs)

\* a list in which the first job timed out and a later one has backups
C18_Witness ==
    /\ lresp = "ok"
    /\ Len(lresult) = 4
    /\ lkinds[1].kind = "timeout"
    /\ lresult[1].backups = << >>
    /\ lresult[4].backups # << >>

\* C19: when a scope that opened an archive has been left, on whatever
\* path, its file handle and its decompressor stream are closed.
C19_HandlesClosedOnExit ==
    \A i \in Ids :
        hpc[i] = "left" => (hfh[i] # "open" /\ hreader[i] # "open")

\* C20: the backups of an archive job are listed by filename, descending.
C20_ArchivesListedDescending ==
    \A k \in 1..Len(lresult) :
        Config(lresult[k].job_name).mode = "compression" =>
            \A n \in 1..(Len(lresult[k].backups) - 1) :
                ~StrLess(lresult[k].backups[n], lresult[k].backups[n + 1])

\* a remote listing that came in ascending order is listed descending
C20_Witness ==
    \E k \in 1..Len(lresult) :
        /\ lresult[k].job_name = "rem_arc"
        /\ lresult[k].raw = << A10, A2 >>
        /\ lresult[k].backups = << A2, A10 >>

(***************************************************************************)
(* Properties of the archive cache                                         *)
(***************************************************************************)
NoCallInProgress == \A i \in Ids : dpc[i] \in { "idle", "got", "failed" }

\* C7: run alone, a download that returns None leaves no file at its cache
\* path, and between calls every non-empty cached file is a complete copy
\* of the remote archive.
C7_FailureLeavesNoPartialFile ==
    /\ \A i \in Ids :
          dpc[i] = "failed" => ~FileExists(cache, CacheKey(dfile[i]))
    /\ NoCallInProgress =>
          \A key \in DOMAIN cache : cache[key] > 0 => cache[key] = rsize

\* a timed-out transfer that had written part of the file has returned None
C7_Witness ==
    dpc[1] = "failed" /\ dpart[1] /\ drc[1] = "timeout" /\ rsize = MaxSize

\* a call that follows a successful call for the same filename
Repeats(i, k) ==
    /\ k \in 1..(Len(dlog[i]) - 1)
    /\ dlog[i][k].result = "path"
    /\ dlog[i][k + 1].file = dlog[i][k].file

\* C8 (as amended): run alone, for a remote archive of non-zero size, the
\* call after a successful download of the same filename returns the cache
\* path again and issues no remote transfer.
C8_SecondDownloadIsCacheHit ==
    \A i \in Ids : \A k \in 1..MaxCalls :
        (Repeats(i, k) /\ rsize > 0) =>
            (dlog[i][k + 1].result = "path" /\ ~dlog[i][k + 1].transfer)

\* C8 as stated: the same, whatever the size of the remote archive
C8_AnySize ==
    \A i \in Ids : \A k \in 1..MaxCalls :
        Repeats(i, k) =>
            (dlog[i][k + 1].result = "path" /\ ~dlog[i][k + 1].transfer)

\* a transfer succeeded and the next call was answered from the cache
C8_Witness ==
    /\ Len(dlog[1]) >= 2
    /\ rsize > 0
    /\ dlog[1][1].result = "path" /\ dlog[1][1].transfer
    /\ dlog[1][2].result = "path" /\ ~dlog[1][2].transfer

\* C9: under concurrent requests for the same remote archive, every request
\* that was handed the cache path reads a complete file: never one another
\* download is still writing, never one another request's cleanup deleted.
C9_NoTornRead ==
    \A i \in Ids : \A k \in 1..Len(dread[i]) : dread[i][k] = "complete"

====
